---------------------------- MODULE Spec2Model ----------------------------
(***************************************************************************)
(* A model of pysyslog's reliability channel (src/src/pysyslog/channels.py)*)
(* and of the flow runner that drives it (src/src/pysyslog/flow.py).       *)
(*                                                                         *)
(* The channel is an asyncio.Queue of ChannelMessage objects, a dict of    *)
(* in-flight messages keyed by message id, an id counter, a closed flag    *)
(* and a watchdog task.  Every coroutine runs atomically between two       *)
(* suspension points, so each action below is one such run: a call up to   *)
(* its return or up to the await it blocks in, or the resumption of a      *)
(* blocked call.                                                           *)
(***************************************************************************)
EXTENDS Integers, Sequences, FiniteSets, Bags, TLC

(***************************************************************************)
(* Bounds of the model.                                                    *)
(***************************************************************************)
MaxMsgs == 2       \* put calls that create a message (cap on _counter)
RaceMsgs == 3      \* the same, in the specification of the watchdog's races
RaceRetry == 3     \* retry_limit in the specification of the watchdog's races
MaxRetry == 2      \* retry_limit is drawn from 0..MaxRetry
MaxQueue == 1      \* maxsize is drawn from 1..MaxQueue
MaxGetters == 1    \* tasks suspended in get at one time
AckTimeout == 1    \* ack_timeout, in clock ticks
MaxLines == 2      \* lines sent to a flow's input
FlowRetry == 3     \* a flow's channel has retry_limit in 0..FlowRetry
FlowQueue == 2     \* a flow's channel has maxsize in 1..FlowQueue
PressureLines == 3 \* lines sent to the flow whose channel has one slot
NumFilters == 3    \* filter blocks of the section of the flow with stages

DefaultRetryLimit == 3   \* ChannelConfig.retry_limit, when not configured

Ids == 1..RaceMsgs   \* the tokens callers pass, issued or not
Payloads == {"a", "b"}

VARIABLES
  queue,        \* Channel._queue: the ids of the queued message objects, head first
  inflight,     \* Channel._inflight: its keys, in insertion order
  msgs,         \* the ChannelMessage objects, by id: payload, attempts, age
  counter,      \* Channel._counter
  closed,       \* Channel._closed
  resender,     \* Channel._resender: "none" or "task"
  wd,           \* the watchdog task: its position, the message it is putting,
                \* the expired messages it still has to process
  retry_limit,  \* ChannelConfig.retry_limit
  maxsize,      \* ChannelConfig.maxsize
  putters,      \* the calls suspended in Queue.put, a bag: from put or from
                \* nack, with the message each holds
  getters,      \* the number of calls suspended in Queue.get
  closing,      \* whether a close is suspended awaiting the watchdog
  ret,          \* what the last call of the API returned or raised
  hist,         \* history: per message, what has happened to it
  flowcfg,      \* the flow's components: whether Output.write suspends, when
                \* it raises, and the filter blocks: what the one output-stage
                \* filter does, or the blocks in the order of the section
  running,      \* Flow._running
  source,       \* MemoryInput._queue: the lines not read yet
  ingest,       \* the ingest task: its position, the message it is putting
  drain,        \* the drain task: its position, the token and the payload it
                \* holds, and (history) the calls of ack and nack it made for
                \* the token and what led to them
  output,       \* the output: FlakyMemoryOutput._failed, MemoryOutput.records
  stats,        \* history: the lines sent, the nacks that put a message back
  turn,         \* the task that is running, between two suspension points:
                \* "ingest", "drain" or "none"
  filters,      \* Flow._filters: for each stage, its filters in the order
                \* _apply_filters runs them
  steps,        \* history: the steps the ingest loop took for the line it
                \* last read, the filters the drain loop last ran
  parts,        \* the flow's other components: whether a format is
                \* configured, whether the flow owns its channel, and the kind
                \* of the components whose start raises
  life,         \* Flow._stop_event, Flow._stack, MemoryInput._closed, the
                \* position of the call of Flow.stop, and (history) the
                \* components in the order the last start started them and
                \* the last stop stopped them, the calls of start that went
                \* past the _running test, the messages the channel held
                \* when stop was last called
  runtime,      \* the Runtime: its flows, its channel registry, the position
                \* of its start or its stop
  loader,       \* the ConfigLoader: the text it is given, what loads returned
                \* or raised, what was built from it
  registry,     \* the ComponentRegistry: its five tables, and (history) the
                \* calls of register_<kind> and the last call of create_<kind>
  peer          \* a second flow that names the same channel: whether it is
                \* started, the lines its input read, the records its output
                \* wrote

chanVars == <<queue, inflight, msgs, counter, closed, resender, wd>>
confVars == <<retry_limit, maxsize>>
lifeVars == <<parts, life, runtime, loader, registry, peer>>
flowVars == <<flowcfg, running, source, ingest, drain, output, stats, turn,
              filters, steps, parts, life, runtime, loader, registry, peer>>
vars == <<queue, inflight, msgs, counter, closed, resender, wd,
          retry_limit, maxsize, putters, getters, closing, ret, hist,
          flowcfg, running, source, ingest, drain, output, stats, turn,
          filters, steps, parts, life, runtime, loader, registry, peer>>

----------------------------------------------------------------------------
(* Helpers on sequences.                                                   *)

InSeq(s, x) == \E i \in 1..Len(s) : s[i] = x

RemoveKey(s, x) == SelectSeq(s, LAMBDA y : y # x)

\* dict[key] = value: a key already present keeps its position
InsertKey(s, x) == IF InSeq(s, x) THEN s ELSE Append(s, x)

\* a queue that is never full: not what the code does
QNeverFull(q) == FALSE

\* asyncio.Queue.full()
QFull(q) == maxsize > 0 /\ Len(q) >= maxsize

\* ChannelMessage(id=..., payload=...): attempts = 0, last_attempt = 0.0.
\* age stands for now - last_attempt, saturated at AckTimeout.
NewMessage(p) == [payload |-> p, attempts |-> 0, age |-> AckTimeout]

\* The history of a message: the payload put passed, the times get returned
\* it, the times the watchdog put it back in the queue since get last
\* returned it, and how it last left the in-flight map without being put
\* back: "acked", "nackDropped", "wdDropped" (by the watchdog), "discarded"
\* (by close), or "none".
NewHist(p) == [put |-> p, gets |-> 0, wdRequeues |-> 0, fate |-> "none"]

callVars == <<putters, getters, closing>>

\* a call suspended in Queue.put
Putter(op, id) == [op |-> op, id |-> id]

\* What a call returned or raised: "ok" is a return of None, "got" the
\* return of get, with the token and the payload (as a sequence of one
\* element; no payload is the empty sequence).
Result(kind) == [kind |-> kind, token |-> 0, payload |-> <<>>]

\* KeyError(f"Unknown delivery token {token}")
KeyError(token) == [kind |-> "KeyError", token |-> token, payload |-> <<>>]

Got(id, p) == [kind |-> "got", token |-> id, payload |-> <<p>>]

----------------------------------------------------------------------------
(* Channel.__init__                                                        *)

\* the channel after construction, whatever its configuration
NewChannel ==
  /\ queue = <<>>
  /\ inflight = <<>>
  /\ msgs = <<>>
  /\ counter = 0
  /\ closed = FALSE
  /\ resender = "none"
  /\ wd = [pc |-> "none", id |-> 0, rest |-> <<>>]
  /\ putters = EmptyBag
  /\ getters = 0
  /\ closing = FALSE
  /\ ret = Result("none")
  /\ hist = <<>>

\* the stages of a flow, in the order of Flow._filters
Stages == {"input", "parser", "output"}

\* Flow._filters of a flow with no filter
NoFilters == [stage \in Stages |-> <<>>]

\* no line read yet, no record got yet
NoSteps ==
  [line |-> "", inputRan |-> <<>>, parseCalled |-> FALSE, parserRan |-> <<>>,
   formatCalled |-> FALSE, putCalled |-> FALSE, outputRan |-> <<>>]

\* a flow after construction, with its input empty
NoPayload == [record |-> [message |-> ""], rendered |-> ""]

\* Flow.__init__: the event is not set, there is no exit stack; the input's
\* _closed is False
NewLife ==
  [event |-> FALSE, hasStack |-> FALSE, stack |-> <<>>, inputClosed |-> FALSE,
   stop |-> "none", started |-> <<>>, stopped |-> <<>>, starts |-> 0,
   atStop |-> {}]

\* a flow with a format that uses a named channel of the registry, and
\* whose components all start
NamedChannel == [format |-> TRUE, owner |-> FALSE, raises |-> "none"]

\* no Runtime was built
NoRuntime ==
  [flows |-> <<>>, channels |-> <<>>, pc |-> "none", i |-> 0, last |-> "none",
   culprit |-> 0]

\* no configuration was loaded
NoLoader == [text |-> <<>>, result |-> <<>>, built |-> <<>>]

\* the fields of a flow after construction
IdleFlow ==
  /\ running = FALSE
  /\ life = NewLife
  /\ source = <<>>
  /\ ingest = [pc |-> "none", id |-> 0]
  /\ drain = [pc |-> "none", token |-> 0, payload |-> NoPayload,
              calls |-> <<>>, cause |-> "none"]
  /\ output = [failed |-> FALSE, records |-> <<>>]
  /\ stats = [sent |-> <<>>, retries |-> 0]
  /\ turn = "none"
  /\ steps = NoSteps

\* the kinds of components
Kinds == {"input", "parser", "output", "format", "filter"}

\* the names under which components are registered and created
Names == {"memory", "x"}

\* BUILTIN_INPUTS ... BUILTIN_FORMATS, for these names: the class
\* registered for the kind under the name, if any
Builtin(kind) ==
  IF kind = "input" THEN [name \in {"memory"} |-> "MemoryInput"]
  ELSE IF kind = "output" THEN [name \in {"memory"} |-> "MemoryOutput"]
  ELSE [name \in {} |-> "none"]

\* a register_<kind> that writes the table of the inputs whatever the kind
InputsTable(kind) == "_inputs"

\* the table register_<kind> writes and the table create_<kind> reads
RegisterTable(kind) ==
  CASE kind = "input" -> "_inputs"
    [] kind = "parser" -> "_parsers"
    [] kind = "filter" -> "_filters"
    [] kind = "output" -> "_outputs"
    [] kind = "format" -> "_formats"

CreateTable(kind) ==
  CASE kind = "input" -> "_inputs"
    [] kind = "parser" -> "_parsers"
    [] kind = "filter" -> "_filters"
    [] kind = "output" -> "_outputs"
    [] kind = "format" -> "_formats"

\* ComponentRegistry.__init__: the five tables with the built-in classes
NewRegistry ==
  [_inputs |-> Builtin("input"), _parsers |-> Builtin("parser"),
   _filters |-> Builtin("filter"), _outputs |-> Builtin("output"),
   _formats |-> Builtin("format"), log |-> <<>>, made |-> <<>>]

\* the second flow after construction
NoPeer == [pc |-> "none", sent |-> <<>>, records |-> <<>>]

\* a flow built by hand, after construction
NewFlow ==
  /\ runtime = NoRuntime
  /\ loader = NoLoader
  /\ registry = NewRegistry
  /\ peer = NoPeer
  /\ IdleFlow

\* the channel on its own: the flow is never started
NoFlow ==
  /\ flowcfg = [suspends |-> FALSE, fails |-> "never", filter |-> "none"]
  /\ filters = NoFilters
  /\ parts = NamedChannel
  /\ NewFlow

Init ==
  /\ NewChannel
  /\ retry_limit \in 0..MaxRetry
  /\ maxsize \in 1..MaxQueue
  /\ NoFlow

----------------------------------------------------------------------------
(* Channel.start                                                           *)

WdSleeping == [pc |-> "sleep", id |-> 0, rest |-> <<>>]

Start ==
  /\ closed' = FALSE
  /\ IF resender = "none" \/ wd.pc = "done"
       THEN resender' = "task" /\ wd' = WdSleeping
       ELSE UNCHANGED <<resender, wd>>
  /\ ret' = Result("ok")
  /\ UNCHANGED <<queue, inflight, msgs, counter, confVars, callVars, hist>>

----------------------------------------------------------------------------
(* Channel.put                                                             *)

\* put on a closed channel
PutClosed ==
  /\ closed
  /\ ret' = Result("RuntimeError")
  /\ UNCHANGED <<chanVars, confVars, callVars, hist>>

\* put on an open channel: the message is created, then enqueued, or the
\* caller is suspended in Queue.put while the queue is full
PutOpen(p) ==
  /\ ~closed
  /\ counter' = counter + 1
  /\ msgs' = msgs @@ (counter' :> NewMessage(p))
  /\ hist' = hist @@ (counter' :> NewHist(p))
  /\ IF QFull(queue)
       THEN /\ putters' = putters (+) SetToBag({Putter("put", counter')})
            /\ UNCHANGED <<queue, ret>>
       ELSE /\ queue' = Append(queue, counter')
            /\ ret' = Result("ok")
            /\ UNCHANGED putters
  /\ UNCHANGED <<inflight, closed, resender, wd, confVars, getters, closing>>

Put(p) == PutClosed \/ PutOpen(p)

\* A caller suspended in Queue.put (from put or from nack) is resumed once
\* the queue has room.  asyncio wakes the longest waiting caller, but a
\* woken caller that finds the queue full again, filled by a call that ran
\* before it, waits anew behind the others: any waiting caller may be the
\* one that gets the free slot.
PutResume(w) ==
  /\ BagIn(w, putters)
  /\ ~QFull(queue)
  /\ queue' = Append(queue, w.id)
  /\ putters' = putters (-) SetToBag({w})
  /\ ret' = Result("ok")
  /\ UNCHANGED <<inflight, msgs, counter, closed, resender, wd, confVars,
                 getters, closing, hist>>

----------------------------------------------------------------------------
(* Channel.get                                                             *)

\* get that hands out the message at the tail of the queue: not what the
\* code does
DeliverLast ==
  LET id == queue[Len(queue)] IN
  /\ queue' = SubSeq(queue, 1, Len(queue) - 1)
  /\ msgs' = [msgs EXCEPT ![id].attempts = @ + 1, ![id].age = 0]
  /\ inflight' = InsertKey(inflight, id)
  /\ hist' = [hist EXCEPT ![id].gets = @ + 1, ![id].wdRequeues = 0]
  /\ ret' = Got(id, msgs[id].payload)

\* The message at the head of the queue is handed out: attempts + 1,
\* last_attempt = now, entered in the in-flight map under its id.
Deliver ==
  LET id == Head(queue) IN
  /\ queue' = Tail(queue)
  /\ msgs' = [msgs EXCEPT ![id].attempts = @ + 1, ![id].age = 0]
  /\ inflight' = InsertKey(inflight, id)
  /\ hist' = [hist EXCEPT ![id].gets = @ + 1, ![id].wdRequeues = 0]
  /\ ret' = Got(id, msgs[id].payload)

\* get on a closed channel
GetClosed ==
  /\ closed
  /\ ret' = Result("RuntimeError")
  /\ UNCHANGED <<chanVars, confVars, callVars, hist>>

\* get on an open channel that holds a message
GetNow ==
  /\ ~closed
  /\ queue # <<>>
  /\ Deliver
  /\ UNCHANGED <<counter, closed, resender, wd, confVars, callVars>>

\* get on an open, empty channel: the caller is suspended in Queue.get
GetWait ==
  /\ ~closed
  /\ queue = <<>>
  /\ getters' = getters + 1
  /\ UNCHANGED <<chanVars, confVars, putters, closing, ret, hist>>

\* a caller suspended in Queue.get is resumed once the queue holds a message
GetResume ==
  /\ getters > 0
  /\ queue # <<>>
  /\ Deliver
  /\ getters' = getters - 1
  /\ UNCHANGED <<counter, closed, resender, wd, confVars, putters, closing>>

----------------------------------------------------------------------------
(* Channel.ack and Channel.nack                                            *)

\* ack that takes any token: not what the code does
AckAnyToken(token) ==
  /\ inflight' = RemoveKey(inflight, token)
  /\ hist' = IF InSeq(inflight, token)
               THEN [hist EXCEPT ![token].fate = "acked"]
               ELSE hist
  /\ ret' = Result("ok")
  /\ UNCHANGED <<queue, msgs, counter, closed, resender, wd, confVars, callVars>>

Ack(token) ==
  /\ IF InSeq(inflight, token)
       THEN /\ inflight' = RemoveKey(inflight, token)
            /\ hist' = [hist EXCEPT ![token].fate = "acked"]
            /\ ret' = Result("ok")
       ELSE /\ ret' = KeyError(token)
            /\ UNCHANGED <<inflight, hist>>
  /\ UNCHANGED <<queue, msgs, counter, closed, resender, wd, confVars, callVars>>

\* nack that puts back whatever the attempts: not what the code does
NackIgnoresLimit(token, requeue) == requeue

\* nack that never puts back: not what the code does
NackNeverRequeues(token, requeue) == FALSE

\* whether nack puts the message back
NackRequeues(token, requeue) ==
  requeue /\ ~(msgs[token].attempts >= retry_limit)

Nack(token, requeue) ==
  /\ IF ~InSeq(inflight, token)
       THEN /\ ret' = KeyError(token)
            /\ UNCHANGED <<queue, inflight, putters, hist>>
       ELSE /\ inflight' = RemoveKey(inflight, token)
            /\ IF ~NackRequeues(token, requeue)
                 THEN /\ hist' = [hist EXCEPT ![token].fate = "nackDropped"]
                      /\ ret' = Result("ok")
                      /\ UNCHANGED <<queue, putters>>
                 ELSE IF QFull(queue)
                   THEN /\ putters' = putters (+) SetToBag({Putter("nack", token)})
                        /\ UNCHANGED <<queue, ret, hist>>
                   ELSE /\ queue' = Append(queue, token)
                        /\ ret' = Result("ok")
                        /\ UNCHANGED <<putters, hist>>
  /\ UNCHANGED <<msgs, counter, closed, resender, wd, confVars, getters, closing>>

----------------------------------------------------------------------------
(* Channel._monitor_ack_timeouts                                           *)

WdDone == [pc |-> "done", id |-> 0, rest |-> <<>>]

WdPutting(id, rest) == [pc |-> "put", id |-> id, rest |-> rest]

\* now - message.last_attempt >= ack_timeout
Expired(id) == msgs[id].age >= AckTimeout

\* the list comprehension over list(self._inflight.values())
ExpiredList == SelectSeq(inflight, Expired)

\* The for loop over the expired messages, from the message at the head of
\* exp up to the end of the list or to the Queue.put that finds the queue
\* full; q, inf and h are the queue, the in-flight keys and the history so
\* far.  attempts is read when the message's turn comes.
RECURSIVE WdLoop(_, _, _, _)
WdLoop(exp, q, inf, h) ==
  IF exp = <<>>
    THEN [queue |-> q, inflight |-> inf, hist |-> h,
          wd |-> IF closed THEN WdDone ELSE WdSleeping]
    ELSE LET id == Head(exp) IN
      IF msgs[id].attempts >= retry_limit
        THEN WdLoop(Tail(exp), q, RemoveKey(inf, id),
                    IF InSeq(inf, id) THEN [h EXCEPT ![id].fate = "wdDropped"] ELSE h)
        ELSE IF QFull(q)
          THEN [queue |-> q, inflight |-> RemoveKey(inf, id), hist |-> h,
                wd |-> WdPutting(id, Tail(exp))]
          ELSE WdLoop(Tail(exp), Append(q, id), RemoveKey(inf, id),
                      [h EXCEPT ![id].wdRequeues = @ + 1])

WdApply(r) ==
  /\ queue' = r.queue
  /\ inflight' = r.inflight
  /\ hist' = r.hist
  /\ wd' = r.wd

\* the sleep ends: the scan of the in-flight map and the loop over it
WdScan ==
  /\ wd.pc = "sleep"
  /\ IF closed
       THEN wd' = WdDone /\ UNCHANGED <<queue, inflight, hist>>
       ELSE WdApply(WdLoop(ExpiredList, queue, inflight, hist))
  /\ UNCHANGED <<msgs, counter, closed, resender, confVars, callVars, ret>>

\* the watchdog, suspended in Queue.put, is resumed once the queue has room
WdPutResume ==
  /\ wd.pc = "put"
  /\ ~QFull(queue)
  /\ WdApply(WdLoop(wd.rest, Append(queue, wd.id), inflight,
                    [hist EXCEPT ![wd.id].wdRequeues = @ + 1]))
  /\ UNCHANGED <<msgs, counter, closed, resender, confVars, callVars, ret>>

\* the cancelled watchdog gets its CancelledError and returns
WdExit ==
  /\ wd.pc = "cancelled"
  /\ wd' = WdDone
  /\ UNCHANGED <<queue, inflight, msgs, counter, closed, resender, confVars,
                 callVars, ret, hist>>

\* The clock advances by one tick: now - last_attempt grows for the
\* messages in flight (it is read for no other message).
Tick ==
  /\ \E i \in 1..Len(inflight) : ~Expired(inflight[i])
  /\ msgs' = [id \in DOMAIN msgs |->
                IF InSeq(inflight, id) /\ ~Expired(id)
                  THEN [msgs[id] EXCEPT !.age = @ + 1]
                  ELSE msgs[id]]
  /\ UNCHANGED <<queue, inflight, counter, closed, resender, wd, confVars,
                 callVars, ret, hist>>

----------------------------------------------------------------------------
(* Channel.close                                                           *)

\* close that leaves the queue as it is: not what the code does
DiscardInflightOnly ==
  /\ inflight' = <<>>
  /\ queue' = queue
  /\ hist' = [id \in DOMAIN hist |->
                IF InSeq(inflight, id)
                  THEN [hist[id] EXCEPT !.fate = "discarded"]
                  ELSE hist[id]]

\* self._inflight.clear() and the loop that empties the queue
Discard ==
  /\ inflight' = <<>>
  /\ queue' = <<>>
  /\ hist' = [id \in DOMAIN hist |->
                IF InSeq(inflight, id)
                  THEN [hist[id] EXCEPT !.fate = "discarded"]
                  ELSE hist[id]]

\* close on a closed channel
CloseClosed ==
  /\ closed
  /\ ret' = Result("ok")
  /\ UNCHANGED <<chanVars, confVars, callVars, hist>>

\* close on an open channel, up to its return or to the await of the
\* cancelled watchdog
CloseOpen ==
  /\ ~closed
  /\ closed' = TRUE
  /\ IF resender = "task" /\ wd.pc # "done"
       THEN /\ wd' = [pc |-> "cancelled", id |-> 0, rest |-> <<>>]
            /\ closing' = TRUE
            /\ UNCHANGED <<queue, inflight, resender, ret, hist>>
       ELSE /\ resender' = "none"
            /\ Discard
            /\ ret' = Result("ok")
            /\ UNCHANGED <<wd, closing>>
  /\ UNCHANGED <<msgs, counter, confVars, putters, getters>>

\* the watchdog close awaits has ended (it is the last one started, or a
\* start has put another in its place since it ended): close goes on to
\* its return
CloseResume ==
  /\ closing
  /\ wd.pc # "cancelled"
  /\ resender' = "none"
  /\ Discard
  /\ closing' = FALSE
  /\ ret' = Result("ok")
  /\ UNCHANGED <<msgs, counter, closed, wd, confVars, putters, getters>>

----------------------------------------------------------------------------
(* The channel under arbitrary callers: any call at any time, by a task    *)
(* of its own, except that start is not called while a close is suspended  *)
(* (the flow and the runtime start a channel before they run and close it  *)
(* after).                                                                 *)

Next ==
  \/ ~closing /\ Start /\ UNCHANGED flowVars
  \/ \E p \in Payloads : counter < MaxMsgs /\ Put(p) /\ UNCHANGED flowVars
  \/ \E w \in BagToSet(putters) : PutResume(w) /\ UNCHANGED flowVars
  \/ GetClosed /\ UNCHANGED flowVars
  \/ GetNow /\ UNCHANGED flowVars
  \/ getters < MaxGetters /\ GetWait /\ UNCHANGED flowVars
  \/ GetResume /\ UNCHANGED flowVars
  \/ \E token \in Ids : Ack(token) /\ UNCHANGED flowVars
  \/ \E token \in Ids, requeue \in BOOLEAN :
        Nack(token, requeue) /\ UNCHANGED flowVars
  \/ CloseClosed /\ UNCHANGED flowVars
  \/ CloseOpen /\ UNCHANGED flowVars
  \/ CloseResume /\ UNCHANGED flowVars
  \/ WdScan /\ UNCHANGED flowVars
  \/ WdPutResume /\ UNCHANGED flowVars
  \/ WdExit /\ UNCHANGED flowVars
  \/ Tick /\ UNCHANGED flowVars

Spec == Init /\ [][Next]_vars

(***************************************************************************)
(* The channel under the same callers, where start is also called while a  *)
(* close is suspended, as a flow that shares the channel may do.  The      *)
(* model has one watchdog task: start is not called when it would create a *)
(* second one beside a watchdog that _resender no longer refers to, and    *)
(* close is not called while a close is suspended.                         *)
(***************************************************************************)
\* the watchdog task is running: created, not cancelled, not ended
WatchdogRuns == wd.pc \in {"sleep", "put"}

NextRestart ==
  \/ ~(resender = "none" /\ WatchdogRuns) /\ Start /\ UNCHANGED flowVars
  \/ \E p \in Payloads : counter < MaxMsgs /\ Put(p) /\ UNCHANGED flowVars
  \/ \E w \in BagToSet(putters) : PutResume(w) /\ UNCHANGED flowVars
  \/ GetClosed /\ UNCHANGED flowVars
  \/ GetNow /\ UNCHANGED flowVars
  \/ getters < MaxGetters /\ GetWait /\ UNCHANGED flowVars
  \/ GetResume /\ UNCHANGED flowVars
  \/ \E token \in Ids : Ack(token) /\ UNCHANGED flowVars
  \/ \E token \in Ids, requeue \in BOOLEAN :
        Nack(token, requeue) /\ UNCHANGED flowVars
  \/ CloseClosed /\ UNCHANGED flowVars
  \/ ~closing /\ CloseOpen /\ UNCHANGED flowVars
  \/ CloseResume /\ UNCHANGED flowVars
  \/ WdScan /\ UNCHANGED flowVars
  \/ WdPutResume /\ UNCHANGED flowVars
  \/ WdExit /\ UNCHANGED flowVars
  \/ Tick /\ UNCHANGED flowVars

SpecRestart == Init /\ [][NextRestart]_vars

(***************************************************************************)
(* The open channel with more messages than Spec has and a larger          *)
(* retry_limit: the runs in which the watchdog is suspended putting one    *)
(* expired message back while it holds others.  The callers are those of   *)
(* Spec, less the calls that wait for a message, the choice of payload and *)
(* the calls of ack and nack that raise.                                   *)
(***************************************************************************)
InitRace ==
  /\ NewChannel
  /\ retry_limit = RaceRetry
  /\ maxsize \in 1..MaxQueue
  /\ NoFlow

NextRace ==
  \/ Start /\ UNCHANGED flowVars
  \/ counter < RaceMsgs /\ PutOpen("a") /\ UNCHANGED flowVars
  \/ \E w \in BagToSet(putters) : PutResume(w) /\ UNCHANGED flowVars
  \/ GetNow /\ UNCHANGED flowVars
  \/ \E token \in Ids :
        InSeq(inflight, token) /\ Ack(token) /\ UNCHANGED flowVars
  \/ \E token \in Ids, requeue \in BOOLEAN :
        InSeq(inflight, token) /\ Nack(token, requeue) /\ UNCHANGED flowVars
  \/ WdScan /\ UNCHANGED flowVars
  \/ WdPutResume /\ UNCHANGED flowVars
  \/ Tick /\ UNCHANGED flowVars

SpecRace == InitRace /\ [][NextRace]_vars

(***************************************************************************)
(* The open channel under a consumer that calls get and never acks nor     *)
(* nacks: only the watchdog takes messages out of the in-flight map.       *)
(***************************************************************************)
NextNoAck ==
  \/ Start /\ UNCHANGED flowVars
  \/ \E p \in Payloads : counter < MaxMsgs /\ PutOpen(p) /\ UNCHANGED flowVars
  \/ \E w \in BagToSet(putters) : PutResume(w) /\ UNCHANGED flowVars
  \/ GetNow /\ UNCHANGED flowVars
  \/ WdScan /\ UNCHANGED flowVars
  \/ WdPutResume /\ UNCHANGED flowVars
  \/ Tick /\ UNCHANGED flowVars

SpecNoAck == Init /\ [][NextNoAck]_vars

----------------------------------------------------------------------------
(***************************************************************************)
(* The flow: an ingest task that reads lines, parses and formats them and  *)
(* puts them in the channel, and a drain task that gets them, filters them *)
(* and writes them.  The flow has a memory input, a JSON parser, the text  *)
(* format with its default template, the filters of its section (in        *)
(* SpecFlow one output-stage filter at most), and a channel that nothing   *)
(* closes.  A task runs alone from one suspension                          *)
(* point to the next: turn names the task that is in such a run, and the   *)
(* other tasks, the watchdog and the clock wait for it to end.  A watchdog  *)
(* suspended in Queue.put stays there, as the drain task suspended in nack *)
(* does: the message it took out of the in-flight map is the one the drain *)
(* task holds, whose ack or nack then ends the task, the only one that     *)
(* calls get.                                                              *)
(***************************************************************************)

\* the lines sent to the input: two JSON objects, the empty line and a line
\* that is not JSON
LineA == "{\"message\": \"a\"}"

LineB == "{\"message\": \"b\"}"

Lines == {LineA, LineB, "", "junk"}

IsJson(line) == line \in {LineA, LineB}

\* json.loads, on a line that is JSON
JsonLoads(line) == IF line = LineA THEN [message |-> "a"] ELSE [message |-> "b"]

\* TextFormat.format with the template "{message}"
Format(record) == record.message

\* an ingest loop that renders an empty record in place of the parsed one
RendersBlank(record) ==
  [record |-> record,
   rendered |-> IF parts.format THEN Format([message |-> ""]) ELSE record]

\* the payload the ingest loop puts in the channel: the record, and the
\* record as the format renders it or, with no format, the record again
Payload(record) ==
  [record |-> record,
   rendered |-> IF parts.format THEN Format(record) ELSE record]

\* The output: write suspends or not; it raises never, at the first call
\* or at every call.  The output-stage filter: none, or one that passes the
\* record a and rejects the record b, or one that passes a and raises on b.
FlowConfigs ==
  [suspends : BOOLEAN, fails : {"never", "first", "always"},
   filter : {"none", "reject", "raise"}]

\* A filter block of a flow section, as FilterConfig: its name (a string, as
\* the sequence of its characters' codes), its stage, and what its allow
\* does with a record of b ("allow", "reject" or "raise"; it allows every
\* other record).
FilterConfig(name, stage, kind) == [name |-> name, stage |-> stage, kind |-> kind]

\* name < other, as Python compares two strings
RECURSIVE NameLess(_, _)
NameLess(name, other) ==
  IF name = <<>> THEN other # <<>>
  ELSE IF other = <<>> THEN FALSE
  ELSE IF Head(name) # Head(other) THEN Head(name) < Head(other)
  ELSE NameLess(Tail(name), Tail(other))

\* the blocks in the order of the section: not what the code does
Unsorted(blocks) == blocks

\* sorted(filters.items()): the blocks by name, the names being distinct
RECURSIVE Sorted(_)
Sorted(blocks) ==
  IF blocks = <<>> THEN <<>>
  ELSE LET rest == Sorted(Tail(blocks))
           before == SelectSeq(rest, LAMBDA f : NameLess(f.name, Head(blocks).name))
           after == SelectSeq(rest, LAMBDA f : ~NameLess(f.name, Head(blocks).name))
       IN before \o <<Head(blocks)>> \o after

\* ConfigLoader._parse_filters, from the blocks of a section in the order
\* in which the section names them first
parse_filters(section) == Sorted(section)

\* Flow.__init__: each filter is appended to the list of its stage, a list
\* that setdefault creates for a stage that is none of the three
FlowFilters(configs) ==
  [stage \in Stages \cup {configs[i].stage : i \in 1..Len(configs)} |->
     SelectSeq(configs, LAMBDA f : f.stage = stage)]

\* the filters of a flow whose section has one block at most, at the
\* output stage
OutputFilter(kind) ==
  FlowFilters(parse_filters(
    IF kind = "none" THEN <<>> ELSE <<FilterConfig(<<1>>, "output", kind)>>))

\* whether the record is the record of b: the raw line at the input stage,
\* the parsed record after it
OfB(record) ==
  IF "raw" \in DOMAIN record THEN record.raw = LineB ELSE record.message = "b"

\* Filter.allow(record): "allow" for True, "reject" for False, or "raise"
allow(filt, record) == IF OfB(record) THEN filt.kind ELSE "allow"

\* a loop that calls every filter, whatever the others returned: not what
\* the code does
RECURSIVE FilterLoopAll(_, _, _)
FilterLoopAll(fs, record, ran) ==
  IF fs = <<>>
    THEN [verdict |-> "allow", ran |-> ran]
    ELSE LET verdict == allow(Head(fs), record)
             rest == FilterLoopAll(Tail(fs), record, Append(ran, Head(fs).name))
         IN IF verdict = "allow" THEN rest ELSE [rest EXCEPT !.verdict = verdict]

\* the loop of Flow._apply_filters over the filters fs, ran being the names
\* of the filters called so far
RECURSIVE FilterLoop(_, _, _)
FilterLoop(fs, record, ran) ==
  IF fs = <<>>
    THEN [verdict |-> "allow", ran |-> ran]
    ELSE LET verdict == allow(Head(fs), record) IN
      IF verdict = "allow"
        THEN FilterLoop(Tail(fs), record, Append(ran, Head(fs).name))
        ELSE [verdict |-> verdict, ran |-> Append(ran, Head(fs).name)]

\* Flow._apply_filters(stage, record): whether the record is allowed,
\* rejected or a filter raised, and the filters called
apply_filters(stage, record) == FilterLoop(filters[stage], record, <<>>)

\* whether this call of Output.write raises
WriteFails ==
  \/ flowcfg.fails = "always"
  \/ flowcfg.fails = "first" /\ ~output.failed

channelVars == <<queue, inflight, msgs, counter, closed, resender, wd,
                 retry_limit, maxsize, putters, getters, closing, ret, hist>>

InitFlow ==
  /\ NewChannel
  /\ retry_limit \in 0..FlowRetry
  /\ maxsize \in 1..FlowQueue
  /\ flowcfg \in FlowConfigs
  /\ filters = OutputFilter(flowcfg.filter)
  /\ parts = NamedChannel
  /\ NewFlow

\* a task may run: no other task is in a run
TaskRuns(t) == turn = "none" \/ turn = t

\* A component of the flow: the input, the parser, the output, the format,
\* a filter (with its name) or the channel.
Comp(kind) == [kind |-> kind, name |-> <<>>]

FilterComps(fs) == [i \in 1..Len(fs) |-> [kind |-> "filter", name |-> fs[i].name]]

\* the components with the channel first: not what the code does
ChannelFirst ==
  <<Comp("channel"), Comp("input"), Comp("parser"), Comp("output")>>
  \o (IF parts.format THEN <<Comp("format")>> ELSE <<>>)
  \o FilterComps(filters["input"])
  \o FilterComps(filters["parser"])
  \o FilterComps(filters["output"])

\* The components in the order in which Flow.start starts them: the input,
\* the parser, the output, the format if there is one, the filters of
\* Flow._filters stage by stage, the channel.
StartOrder ==
  <<Comp("input"), Comp("parser"), Comp("output")>>
  \o (IF parts.format THEN <<Comp("format")>> ELSE <<>>)
  \o FilterComps(filters["input"])
  \o FilterComps(filters["parser"])
  \o FilterComps(filters["output"])
  \o <<Comp("channel")>>

\* the components of order that Flow.start starts: those before the first
\* one whose start raises
RECURSIVE Entered(_)
Entered(order) ==
  IF order = <<>> \/ Head(order).kind = parts.raises
    THEN <<>>
    ELSE <<Head(order)>> \o Entered(Tail(order))

\* the tasks Flow.start creates
NewIngest == [pc |-> "read", id |-> 0]

NewDrain ==
  [pc |-> "get", token |-> 0, payload |-> NoPayload, calls |-> <<>>,
   cause |-> "none"]

\* Flow.start.  On a running flow it returns at once.  Else the components
\* are started in order, each entered in the exit stack (the channel of the
\* registry is started and not entered); the exception of a start leaves
\* start there, with the stack as it is.  The tasks are created last.
FlowStart ==
  /\ turn = "none"
  /\ IF running
       THEN UNCHANGED <<channelVars, running, ingest, drain, life>>
       ELSE LET entered == Entered(StartOrder) IN
            /\ running' = TRUE
            /\ life' = [life EXCEPT
                          !.event = FALSE,
                          !.hasStack = TRUE,
                          !.stack = SelectSeq(entered,
                                      LAMBDA c : c.kind # "channel" \/ parts.owner),
                          !.stop = "none",
                          !.started = entered,
                          !.stopped = <<>>,
                          !.starts = @ + 1]
            /\ IF Len(entered) = Len(StartOrder)
                 THEN /\ Start
                      /\ ingest' = NewIngest
                      /\ drain' = NewDrain
                 ELSE UNCHANGED <<channelVars, ingest, drain>>
  /\ UNCHANGED <<flowcfg, source, output, stats, turn, filters, steps, parts,
                 runtime, loader, registry, peer>>

\* MemoryInput.send
Send(line) ==
  /\ turn = "none"
  /\ source' = Append(source, line)
  /\ stats' = [stats EXCEPT !.sent = Append(@, line)]
  /\ UNCHANGED <<channelVars, flowcfg, running, ingest, drain, output, turn,
                 filters, steps, lifeVars>>

\* What one turn of Flow._ingest_loop does with the line it read, up to the
\* call of Channel.put: the steps it takes, and how it ends: "skip" (the
\* continue after a rejection or an empty parse result), "raise" (an
\* exception of a filter or of the parser ends the task) or "put".
Pipeline(line) ==
  LET inp == apply_filters("input", [raw |-> line])
      begun == [NoSteps EXCEPT !.line = line, !.inputRan = inp.ran,
                               !.outputRan = steps.outputRan]
      called == [begun EXCEPT !.parseCalled = TRUE]
  IN IF inp.verdict # "allow"
       THEN [end |-> IF inp.verdict = "reject" THEN "skip" ELSE "raise",
             steps |-> begun]
     ELSE IF line = ""
       THEN [end |-> "skip", steps |-> called]
     ELSE IF ~IsJson(line)
       THEN [end |-> "raise", steps |-> called]
     ELSE LET par == apply_filters("parser", JsonLoads(line))
              filtered == [called EXCEPT !.parserRan = par.ran]
          IN IF par.verdict # "allow"
               THEN [end |-> IF par.verdict = "reject" THEN "skip" ELSE "raise",
                     steps |-> filtered]
               ELSE [end |-> "put",
                     steps |-> [filtered EXCEPT !.formatCalled = parts.format,
                                                !.putCalled = TRUE]]

\* Flow._ingest_loop, one turn of the loop: read, filter, parse, filter,
\* format, put.  With no line to read the task sleeps in MemoryInput.read;
\* once the input is stopped read returns None and the task yields in
\* sleep(0).  (Flow.stop cancels the task in the run that sets the event:
\* the task is never at the top of its loop with the event set.)
IngestRead ==
  /\ TaskRuns("ingest")
  /\ ingest.pc = "read"
  /\ ~life.event
  /\ IF source = <<>> \/ life.inputClosed
       THEN /\ turn' = "none"
            /\ UNCHANGED <<channelVars, source, ingest, steps>>
       ELSE LET line == Head(source)
                run == Pipeline(line)
            IN
            /\ source' = Tail(source)
            /\ steps' = run.steps
            /\ IF run.end = "skip"
                 THEN /\ turn' = "ingest"
                      /\ UNCHANGED <<channelVars, ingest>>
                 ELSE IF run.end = "raise"
                   THEN /\ ingest' = [pc |-> "dead", id |-> 0]
                        /\ turn' = "none"
                        /\ UNCHANGED channelVars
                   ELSE /\ Put(Payload(JsonLoads(line)))
                        /\ IF closed
                             THEN /\ ingest' = [pc |-> "dead", id |-> 0]
                                  /\ turn' = "none"
                             ELSE IF QFull(queue)
                               THEN /\ ingest' = [pc |-> "put", id |-> counter']
                                    /\ turn' = "none"
                               ELSE /\ ingest' = [pc |-> "read", id |-> 0]
                                    /\ turn' = "ingest"
  /\ UNCHANGED <<flowcfg, running, drain, output, stats, filters,
                 lifeVars>>

\* the ingest task, suspended in Channel.put, is resumed
IngestPutResume ==
  /\ turn = "none"
  /\ ingest.pc = "put"
  /\ PutResume(Putter("put", ingest.id))
  /\ ingest' = [pc |-> "read", id |-> 0]
  /\ turn' = "ingest"
  /\ UNCHANGED <<flowcfg, running, source, drain, output, stats, filters, steps, lifeVars>>

\* the drain task with the token and the payload get returned
Holding(token, payload) ==
  [pc |-> "filter", token |-> token, payload |-> payload,
   calls |-> <<>>, cause |-> "none"]

\* Flow._drain_loop, the event not being set: the call of Channel.get
DrainGet ==
  /\ TaskRuns("drain")
  /\ drain.pc = "get"
  /\ ~life.event
  /\ IF closed
       THEN /\ GetClosed
            /\ drain' = [drain EXCEPT !.pc = "dead"]
            /\ turn' = "none"
       ELSE IF queue = <<>>
         THEN /\ GetWait
              /\ drain' = [drain EXCEPT !.pc = "getwait"]
              /\ turn' = "none"
         ELSE /\ GetNow
              /\ drain' = Holding(ret'.token, ret'.payload[1])
              /\ turn' = "drain"
  /\ UNCHANGED <<flowcfg, running, source, ingest, output, stats, filters, steps, lifeVars>>

\* the drain task, suspended in Channel.get, is resumed
DrainGetResume ==
  /\ turn = "none"
  /\ drain.pc = "getwait"
  /\ GetResume
  /\ drain' = Holding(ret'.token, ret'.payload[1])
  /\ turn' = "drain"
  /\ UNCHANGED <<flowcfg, running, source, ingest, output, stats, filters, steps, lifeVars>>

\* the output-stage filters: an exception of a filter ends the task
DrainFilter ==
  /\ turn = "drain"
  /\ drain.pc = "filter"
  /\ LET out == apply_filters("output", drain.payload.record)
         verdict == out.verdict
     IN
       /\ drain' = [drain EXCEPT
                      !.pc = CASE verdict = "allow" -> "write"
                               [] verdict = "reject" -> "ack"
                               [] OTHER -> "dead",
                      !.cause = IF verdict = "reject" THEN "rejected" ELSE @]
       /\ turn' = IF verdict = "raise" THEN "none" ELSE "drain"
       /\ steps' = [steps EXCEPT !.outputRan = out.ran]
  /\ UNCHANGED <<channelVars, flowcfg, running, source, ingest, output, stats,
                 filters, lifeVars>>

\* what Output.write does when it ends: it raises, or it records its argument
Written ==
  IF WriteFails
    THEN /\ output' = [output EXCEPT !.failed = TRUE]
         /\ drain' = [drain EXCEPT !.pc = "nack", !.cause = "failed"]
    ELSE /\ output' = [output EXCEPT !.records = Append(@, drain.payload.rendered)]
         /\ drain' = [drain EXCEPT !.pc = "ack", !.cause = "written"]

\* the call of Output.write, up to its end or to its suspension
DrainWrite ==
  /\ turn = "drain"
  /\ drain.pc = "write"
  /\ IF flowcfg.suspends
       THEN /\ drain' = [drain EXCEPT !.pc = "writing"]
            /\ turn' = "none"
            /\ UNCHANGED output
       ELSE /\ Written
            /\ turn' = "drain"
  /\ UNCHANGED <<channelVars, flowcfg, running, source, ingest, stats,
                 filters, steps, lifeVars>>

\* the suspended Output.write ends
DrainWriteResume ==
  /\ turn = "none"
  /\ drain.pc = "writing"
  /\ Written
  /\ turn' = "drain"
  /\ UNCHANGED <<channelVars, flowcfg, running, source, ingest, stats,
                 filters, steps, lifeVars>>

\* the call of Channel.ack: its KeyError ends the task
DrainAck ==
  /\ turn = "drain"
  /\ drain.pc = "ack"
  /\ Ack(drain.token)
  /\ drain' = [drain EXCEPT
                 !.calls = Append(@, "ack"),
                 !.pc = IF InSeq(inflight, drain.token) THEN "get" ELSE "dead"]
  /\ turn' = IF InSeq(inflight, drain.token) THEN "drain" ELSE "none"
  /\ UNCHANGED <<flowcfg, running, source, ingest, output, stats, filters, steps, lifeVars>>

\* The call of Channel.nack, up to its return, its KeyError or its
\* suspension in Queue.put; after the return the task yields in sleep(0).
\* The task suspended in Queue.put ("nackput") stays there: the queue is
\* full, and no other task of the flow takes a message out of it.
DrainNack ==
  /\ turn = "drain"
  /\ drain.pc = "nack"
  /\ Nack(drain.token, TRUE)
  /\ LET known == InSeq(inflight, drain.token)
         back == known /\ NackRequeues(drain.token, TRUE)
     IN /\ drain' = [drain EXCEPT
                       !.calls = Append(@, "nack"),
                       !.pc = IF ~known THEN "dead"
                              ELSE IF back /\ QFull(queue) THEN "nackput"
                              ELSE "get"]
        /\ stats' = IF back THEN [stats EXCEPT !.retries = @ + 1] ELSE stats
  /\ turn' = "none"
  /\ UNCHANGED <<flowcfg, running, source, ingest, output, filters, steps, lifeVars>>

NextFlow ==
  \/ FlowStart
  \/ \E line \in Lines : Len(stats.sent) < MaxLines /\ Send(line)
  \/ IngestRead
  \/ IngestPutResume
  \/ DrainGet
  \/ DrainGetResume
  \/ DrainFilter
  \/ DrainWrite
  \/ DrainWriteResume
  \/ DrainAck
  \/ DrainNack
  \/ turn = "none" /\ WdScan /\ UNCHANGED flowVars
  \/ turn = "none" /\ Tick /\ UNCHANGED flowVars

SpecFlow == InitFlow /\ [][NextFlow]_vars

\* The event loop runs every task that is ready, and the watchdog among
\* them.
IngestStep == IngestRead \/ IngestPutResume

DrainStep ==
  \/ DrainGet
  \/ DrainGetResume
  \/ DrainFilter
  \/ DrainWrite
  \/ DrainWriteResume
  \/ DrainAck
  \/ DrainNack

SpecFlowFair ==
  /\ InitFlow
  /\ [][NextFlow]_vars
  /\ WF_vars(IngestStep)
  /\ WF_vars(DrainStep)

(***************************************************************************)
(* The flow under backpressure: a channel of one slot with the default     *)
(* retry_limit, no filter, and more lines than the channel and the drain   *)
(* task hold together, so that the ingest task is suspended in put.        *)
(***************************************************************************)
InitPressure ==
  /\ NewChannel
  /\ retry_limit = DefaultRetryLimit
  /\ maxsize = 1
  /\ flowcfg \in {c \in FlowConfigs : c.filter = "none"}
  /\ filters = OutputFilter(flowcfg.filter)
  /\ parts = NamedChannel
  /\ NewFlow

NextPressure ==
  \/ FlowStart
  \/ Len(stats.sent) < PressureLines /\ Send(LineA)
  \/ IngestRead
  \/ IngestPutResume
  \/ DrainGet
  \/ DrainGetResume
  \/ DrainFilter
  \/ DrainWrite
  \/ DrainWriteResume
  \/ DrainAck
  \/ DrainNack
  \/ turn = "none" /\ WdScan /\ UNCHANGED flowVars
  \/ turn = "none" /\ Tick /\ UNCHANGED flowVars

SpecPressure == InitPressure /\ [][NextPressure]_vars

SpecPressureFair ==
  /\ InitPressure
  /\ [][NextPressure]_vars
  /\ WF_vars(IngestStep)
  /\ WF_vars(DrainStep)

(***************************************************************************)
(* The flow with filters at every stage: its section has NumFilters filter *)
(* blocks, named a, ab and b, in any order, each at any stage, each a      *)
(* filter that allows every record or one that rejects the record of b.    *)
(* Its output is a memory output that never raises, or one whose write     *)
(* suspends and raises at its first call.                                  *)
(***************************************************************************)
FilterNames == {<<1>>, <<1, 2>>, <<2>>}

Sections ==
  {section \in [1..NumFilters ->
                 [name : FilterNames, stage : Stages, kind : {"allow", "reject"}]] :
     \A i, j \in 1..NumFilters : i # j => section[i].name # section[j].name}

InitStages ==
  /\ NewChannel
  /\ retry_limit = DefaultRetryLimit
  /\ maxsize = 1
  /\ \E section \in Sections, healthy \in BOOLEAN :
       /\ flowcfg = [suspends |-> ~healthy,
                     fails |-> IF healthy THEN "never" ELSE "first",
                     filter |-> "section", section |-> section]
       /\ filters = FlowFilters(parse_filters(section))
  /\ parts = NamedChannel
  /\ NewFlow

SpecStages == InitStages /\ [][NextFlow]_vars

SpecStagesFair ==
  /\ InitStages
  /\ [][NextFlow]_vars
  /\ WF_vars(IngestStep)
  /\ WF_vars(DrainStep)

----------------------------------------------------------------------------
(***************************************************************************)
(* Flow.stop, and the end of the tasks it cancels.  The call runs up to    *)
(* its first await of a task that has not ended, then from the end of      *)
(* that task up to the next such await, and so on to the exit of the       *)
(* stack, where the close of the owned channel awaits the watchdog.        *)
(***************************************************************************)

\* ChannelConfig.maxsize, when not configured: that of an owned channel
DefaultMaxsize == 1000

\* the messages the channel holds: those queued and those in flight
Held == {id \in DOMAIN msgs : InSeq(queue, id) \/ InSeq(inflight, id)}

Reverse(s) == [i \in 1..Len(s) |-> s[Len(s) + 1 - i]]

\* the contexts in the order they were entered: not what the code does
EntryOrder(stack) == stack

\* AsyncExitStack.__aexit__ exits the contexts last entered first
ExitOrder(stack) == Reverse(stack)

\* the exit stack is unwound and dropped: every component entered is
\* stopped; MemoryInput.stop sets _closed
Stopped(l) ==
  [l EXCEPT !.stop = "done",
            !.hasStack = FALSE,
            !.stack = <<>>,
            !.stopped = ExitOrder(l.stack),
            !.inputClosed = @ \/ InSeq(l.stack, Comp("input"))]

\* self._stack.__aexit__: the owned channel, entered last, is exited first,
\* and its close awaits the watchdog it cancelled
Unwind(l) ==
  IF l.stack # <<>> /\ l.stack[Len(l.stack)].kind = "channel"
    THEN /\ CloseClosed \/ CloseOpen
         /\ life' = IF closing'
                      THEN [l EXCEPT !.stop = "close",
                                     !.stopped = <<Comp("channel")>>]
                      ELSE Stopped(l)
    ELSE /\ life' = Stopped(l)
         /\ UNCHANGED channelVars

\* self._tasks.clear(), and what follows
AfterTasks(l) ==
  /\ ingest' = [pc |-> "none", id |-> 0]
  /\ drain' = [drain EXCEPT !.pc = "none"]
  /\ Unwind(l)

\* task.cancel() on the ingest task: the Queue.put it is suspended in is
\* cancelled with it
CancelIngest ==
  /\ ingest' = [pc |-> "cancelled", id |-> 0]
  /\ putters' = IF ingest.pc = "put"
                  THEN putters (-) SetToBag({Putter("put", ingest.id)})
                  ELSE putters
  /\ UNCHANGED getters

\* task.cancel() on the drain task: the Queue.get, the Output.write or the
\* Queue.put of nack it is suspended in is cancelled with it
CancelDrain ==
  /\ drain' = [drain EXCEPT !.pc = "cancelled"]
  /\ getters' = IF drain.pc = "getwait" THEN getters - 1 ELSE getters
  /\ putters' = IF drain.pc = "nackput"
                  THEN putters (-) SetToBag({Putter("nack", drain.token)})
                  ELSE putters

\* Flow.stop, up to the await of the ingest task.  On a flow that is not
\* running it returns at once.  With no task (start raised) it goes on to
\* the exit stack.  The await of a task that an exception ended raises
\* that exception: stop ends there.
FlowStop ==
  /\ turn = "none"
  /\ IF ~running
       THEN UNCHANGED <<channelVars, running, ingest, drain, life>>
       ELSE LET l == [life EXCEPT !.event = TRUE, !.atStop = Held] IN
            /\ running' = FALSE
            /\ IF ingest.pc = "none"
                 THEN AfterTasks(l)
                 ELSE IF ingest.pc = "dead"
                   THEN /\ life' = [l EXCEPT !.stop = "raised"]
                        /\ UNCHANGED <<channelVars, ingest, drain>>
                   ELSE /\ CancelIngest
                        /\ life' = [l EXCEPT !.stop = "ingest"]
                        /\ UNCHANGED <<chanVars, confVars, closing, ret, hist,
                                       drain>>
  /\ UNCHANGED <<flowcfg, source, output, stats, turn, filters, steps, parts,
                 runtime, loader, registry, peer>>

\* the cancelled ingest task gets its CancelledError and returns
IngestCancelled ==
  /\ turn = "none"
  /\ ingest.pc = "cancelled"
  /\ ingest' = [ingest EXCEPT !.pc = "done"]
  /\ UNCHANGED <<channelVars, flowcfg, running, source, drain, output, stats,
                 turn, filters, steps, lifeVars>>

\* the cancelled drain task gets its CancelledError and returns
DrainCancelled ==
  /\ turn = "none"
  /\ drain.pc = "cancelled"
  /\ drain' = [drain EXCEPT !.pc = "done"]
  /\ UNCHANGED <<channelVars, flowcfg, running, source, ingest, output, stats,
                 turn, filters, steps, lifeVars>>

\* Flow._drain_loop, at the top of the loop with the event set: the task
\* returns
DrainReturn ==
  /\ TaskRuns("drain")
  /\ drain.pc = "get"
  /\ life.event
  /\ drain' = [drain EXCEPT !.pc = "done"]
  /\ turn' = "none"
  /\ UNCHANGED <<channelVars, flowcfg, running, source, ingest, output, stats,
                 filters, steps, lifeVars>>

\* Flow.stop, from the end of the ingest task up to the await of the drain
\* task
StopAwaitIngest ==
  /\ turn = "none"
  /\ life.stop = "ingest"
  /\ ingest.pc = "done"
  /\ IF drain.pc = "dead"
       THEN /\ life' = [life EXCEPT !.stop = "raised"]
            /\ UNCHANGED <<channelVars, ingest, drain>>
       ELSE IF drain.pc = "done"
         THEN AfterTasks(life)
         ELSE /\ CancelDrain
              /\ life' = [life EXCEPT !.stop = "drain"]
              /\ UNCHANGED <<chanVars, confVars, closing, ret, hist, ingest>>
  /\ UNCHANGED <<flowcfg, running, source, output, stats, turn, filters, steps,
                 parts, runtime, loader, registry, peer>>

\* Flow.stop, from the end of the drain task on
StopAwaitDrain ==
  /\ turn = "none"
  /\ life.stop = "drain"
  /\ drain.pc = "done"
  /\ AfterTasks(life)
  /\ UNCHANGED <<flowcfg, running, source, output, stats, turn, filters, steps,
                 parts, runtime, loader, registry, peer>>

\* Flow.stop, from the end of the watchdog on: the close of the channel
\* returns, the other components are stopped
StopCloseResume ==
  /\ turn = "none"
  /\ life.stop = "close"
  /\ CloseResume
  /\ life' = Stopped(life)
  /\ UNCHANGED <<flowcfg, running, source, ingest, drain, output, stats, turn,
                 filters, steps, parts, runtime, loader, registry, peer>>

(***************************************************************************)
(* The flow started and stopped by its user, at any time between two runs  *)
(* of its tasks, MaxStarts times at most; started again only once the      *)
(* stop before has returned.  The flow has or has not a format, owns its   *)
(* channel (which then has the default configuration) or uses a named      *)
(* channel of one slot, and has an input-stage filter named b and an       *)
(* output-stage filter named a, which allow every record; the start of     *)
(* its components of one kind may raise.  Its output never raises, or its  *)
(* write suspends and raises at its first call.  The lines sent are the    *)
(* JSON object a and a line that is not JSON.                              *)
(***************************************************************************)
MaxStarts == 2    \* calls of Flow.start on the flow when it is not running
LifeLines == 3    \* lines sent to the flow that is started and stopped


LifeFilters ==
  <<FilterConfig(<<1>>, "output", "allow"), FilterConfig(<<2>>, "input", "allow")>>

InitLife ==
  /\ NewChannel
  /\ parts \in [format : BOOLEAN, owner : BOOLEAN, raises : Kinds \cup {"none"}]
  /\ retry_limit = DefaultRetryLimit
  /\ maxsize = IF parts.owner THEN DefaultMaxsize ELSE 1
  /\ \E healthy \in BOOLEAN :
       flowcfg = [suspends |-> ~healthy,
                  fails |-> IF healthy THEN "never" ELSE "first",
                  filter |-> "none"]
  /\ filters = FlowFilters(LifeFilters)
  /\ NewFlow

NextLife ==
  \/ /\ running \/ (life.starts < MaxStarts /\ life.stop \in {"none", "done"})
     /\ FlowStart
  \/ FlowStop
  \/ \E line \in {LineA, "junk"} : Len(stats.sent) < LifeLines /\ Send(line)
  \/ IngestRead
  \/ IngestPutResume
  \/ DrainGet
  \/ DrainGetResume
  \/ DrainFilter
  \/ DrainWrite
  \/ DrainWriteResume
  \/ DrainAck
  \/ DrainNack
  \/ DrainReturn
  \/ IngestCancelled
  \/ DrainCancelled
  \/ StopAwaitIngest
  \/ StopAwaitDrain
  \/ StopCloseResume
  \/ turn = "none" /\ WdScan /\ UNCHANGED flowVars
  \/ turn = "none" /\ WdPutResume /\ UNCHANGED flowVars
  \/ turn = "none" /\ WdExit /\ UNCHANGED flowVars
  \/ turn = "none" /\ Tick /\ UNCHANGED flowVars

SpecLife == InitLife /\ [][NextLife]_vars

\* The event loop runs every task that is ready: the tasks of the flow, the
\* cancelled tasks, the watchdog, and the call of stop when the task it
\* awaits has ended.
StopStep ==
  \/ IngestCancelled
  \/ DrainCancelled
  \/ DrainReturn
  \/ StopAwaitIngest
  \/ StopAwaitDrain
  \/ StopCloseResume
  \/ turn = "none" /\ WdExit /\ UNCHANGED flowVars

SpecLifeFair ==
  /\ InitLife
  /\ [][NextLife]_vars
  /\ WF_vars(IngestStep)
  /\ WF_vars(DrainStep)
  /\ WF_vars(StopStep)

----------------------------------------------------------------------------
(***************************************************************************)
(* The Runtime: the flows of a configuration, built over one channel       *)
(* registry, started one after the other and stopped one after the other,  *)
(* the channels of the registry closed last.  A flow is seen here from     *)
(* outside, by what Flow.start and Flow.stop do to it as a whole (as       *)
(* FlowStart and FlowStop do above): whether it is running, whether it has *)
(* components started, whether it has tasks, whether an exception ended    *)
(* its ingest task, and the channel it uses.  A flow may have a component  *)
(* whose start raises, or a parser that raises on a line it reads while    *)
(* the flow runs.                                                          *)
(***************************************************************************)
NumFlows == 3    \* flows of the configuration

ChannelNames == {"c", "d"}

\* What a flow section gives the Runtime: the name of its channel ("" when
\* it names none) and what goes wrong in the flow: nothing, the start of a
\* component ("start"), or the parser while the flow runs ("task").
FlowSections == [channel : ChannelNames \cup {""}, fault : {"none", "start", "task"}]

\* a Channel after construction: open, with the name of its configuration
\* (owned channels are not in the registry: shared is FALSE)
ChannelOf(name, shared) == [name |-> name, shared |-> shared, closed |-> FALSE]

\* the index in channels of the channel the registry holds under name, 0
\* when it holds none
Lookup(channels, name) ==
  IF \E k \in 1..Len(channels) : channels[k].shared /\ channels[k].name = name
    THEN CHOOSE k \in 1..Len(channels) :
           channels[k].shared /\ channels[k].name = name
    ELSE 0

\* a registry that builds a channel at every call: not what the code does
GetFresh(channels, name) == Append(channels, ChannelOf(name, TRUE))

\* ChannelRegistry.get: the channels of the registry after the call; the
\* channel is built at the first call for its name
RegistryGet(channels, name) ==
  IF Lookup(channels, name) = 0
    THEN Append(channels, ChannelOf(name, TRUE))
    ELSE channels

\* the channel the call of get returns, among the channels after the call:
\* the one built last under the name
Returned(channels, name) ==
  CHOOSE k \in 1..Len(channels) :
    /\ channels[k].shared /\ channels[k].name = name
    /\ \A j \in 1..Len(channels) :
         channels[j].shared /\ channels[j].name = name => j <= k

\* Flow.__init__, as to the channel: the flow gets the channel of the
\* registry for the name it gives, or builds a channel of its own
RECURSIVE BuildFlows(_, _, _)
BuildFlows(sections, flows, channels) ==
  IF sections = <<>>
    THEN [flows |-> flows, channels |-> channels]
    ELSE LET sec == Head(sections)
             chans == IF sec.channel # ""
                        THEN RegistryGet(channels, sec.channel)
                        ELSE Append(channels, ChannelOf("", FALSE))
             flow == [channel |-> sec.channel,
                      fault |-> sec.fault,
                      owner |-> sec.channel = "",
                      chan |-> IF sec.channel # ""
                                 THEN Returned(chans, sec.channel)
                                 ELSE Len(chans),
                      running |-> FALSE, up |-> FALSE, tasks |-> FALSE,
                      dead |-> FALSE]
         IN BuildFlows(Tail(sections), Append(flows, flow), chans)

\* Runtime.__init__
NewRuntime(sections) ==
  LET built == BuildFlows(sections, <<>>, <<>>) IN
  [flows |-> built.flows, channels |-> built.channels,
   pc |-> "idle", i |-> 0, last |-> "none", culprit |-> 0]

notRuntime == <<channelVars, flowcfg, running, source, ingest, drain, output,
                stats, turn, filters, steps, parts, life, loader, registry, peer>>

\* whether Flow.start raises: the flow is not running and the start of one
\* of its components raises
StartRaises(flow) == ~flow.running /\ flow.fault = "start"

\* Flow.start, as a whole: what it makes of the flow.  A running flow is
\* left as it is.  The start of a component that raises leaves the flow
\* marked as running, with the components before it started and no task.
Started(flow) ==
  IF flow.running THEN flow
  ELSE IF flow.fault = "start"
    THEN [flow EXCEPT !.running = TRUE, !.up = TRUE]
    ELSE [flow EXCEPT !.running = TRUE, !.up = TRUE, !.tasks = TRUE,
                      !.dead = FALSE]

\* whether Flow.stop raises: the flow is running and an exception has
\* ended its ingest task, which the await of that task raises
StopRaises(flow) == flow.running /\ flow.tasks /\ flow.dead

\* Flow.stop, as a whole.  A flow that is not running is left as it is.
\* When stop raises the drain task and the components are left as they
\* are.
Halted(flow) ==
  IF ~flow.running THEN flow
  ELSE IF flow.tasks /\ flow.dead
    THEN [flow EXCEPT !.running = FALSE]
    ELSE [flow EXCEPT !.running = FALSE, !.up = FALSE, !.tasks = FALSE]

\* the channels after the flow was started into after: its channel is
\* started, which opens it
ChannelsStarted(channels, flow, after) ==
  IF ~flow.running /\ after.tasks
    THEN [channels EXCEPT ![flow.chan].closed = FALSE]
    ELSE channels

\* the channels after the flow was stopped into after: the exit stack
\* closes the channel the flow owns
ChannelsStopped(channels, flow, after) ==
  IF flow.running /\ ~StopRaises(flow) /\ flow.owner /\ flow.tasks
    THEN [channels EXCEPT ![flow.chan].closed = TRUE]
    ELSE channels

\* Runtime.start, from the start of flow i up to the start of the next
\* flow, to its return, or to the exception of Flow.start
StartLoop(i) ==
  LET flow == runtime.flows[i]
      after == Started(flow)
      more == ~StartRaises(flow) /\ i < Len(runtime.flows)
  IN runtime' =
       [runtime EXCEPT
          !.flows[i] = after,
          !.channels = ChannelsStarted(@, flow, after),
          !.pc = IF more THEN "start" ELSE "idle",
          !.i = IF more THEN i + 1 ELSE 0,
          !.last = IF StartRaises(flow) THEN "startRaised"
                   ELSE IF more THEN "none" ELSE "started",
          !.culprit = IF StartRaises(flow) THEN i ELSE 0]

RuntimeStart ==
  /\ runtime.pc = "idle"
  /\ StartLoop(1)
  /\ UNCHANGED notRuntime

RuntimeStartNext ==
  /\ runtime.pc = "start"
  /\ StartLoop(runtime.i)
  /\ UNCHANGED notRuntime

\* the channels of the registry, in the order of ChannelRegistry.all()
Shared(channels) == {k \in 1..Len(channels) : channels[k].shared}

\* the first channel of the registry after channel k, 0 when there is none
NextShared(channels, k) ==
  IF \E j \in Shared(channels) : j > k
    THEN CHOOSE j \in Shared(channels) :
           j > k /\ \A h \in Shared(channels) : h > k => j <= h
    ELSE 0

\* Runtime.stop, from the stop of flow i up to the stop of the next flow,
\* to the close of the first channel of the registry, to its return, or
\* to the exception of Flow.stop
StopLoop(i) ==
  LET flow == runtime.flows[i]
      after == Halted(flow)
      more == ~StopRaises(flow) /\ i < Len(runtime.flows)
      first == NextShared(runtime.channels, 0)
  IN runtime' =
       [runtime EXCEPT
          !.flows[i] = after,
          !.channels = ChannelsStopped(@, flow, after),
          !.pc = IF StopRaises(flow) THEN "idle"
                 ELSE IF more THEN "stop"
                 ELSE IF first # 0 THEN "close" ELSE "idle",
          !.i = IF StopRaises(flow) THEN 0
                ELSE IF more THEN i + 1
                ELSE first,
          !.last = IF StopRaises(flow) THEN "stopRaised"
                   ELSE IF more \/ first # 0 THEN "none" ELSE "stopped",
          !.culprit = IF StopRaises(flow) THEN i ELSE 0]

RuntimeStop ==
  /\ runtime.pc = "idle"
  /\ StopLoop(1)
  /\ UNCHANGED notRuntime

RuntimeStopNext ==
  /\ runtime.pc = "stop"
  /\ StopLoop(runtime.i)
  /\ UNCHANGED notRuntime

\* Runtime.stop, the loop over the channels of the registry: the close of
\* channel i
RuntimeClose ==
  /\ runtime.pc = "close"
  /\ LET next == NextShared(runtime.channels, runtime.i) IN
     runtime' = [runtime EXCEPT
                   !.channels[runtime.i].closed = TRUE,
                   !.pc = IF next # 0 THEN "close" ELSE "idle",
                   !.i = next,
                   !.last = IF next # 0 THEN "none" ELSE "stopped"]
  /\ UNCHANGED notRuntime

\* the parser of a running flow raises on a line: the exception ends the
\* ingest task
TaskDies(i) ==
  /\ runtime.flows[i].fault = "task"
  /\ runtime.flows[i].running
  /\ runtime.flows[i].tasks
  /\ ~runtime.flows[i].dead
  /\ runtime' = [runtime EXCEPT !.flows[i].dead = TRUE]
  /\ UNCHANGED notRuntime

InitRuntime ==
  /\ NewChannel
  /\ retry_limit = DefaultRetryLimit
  /\ maxsize = DefaultMaxsize
  /\ flowcfg = [suspends |-> FALSE, fails |-> "never", filter |-> "none"]
  /\ filters = NoFilters
  /\ parts = NamedChannel
  /\ IdleFlow
  /\ loader = NoLoader
  /\ registry = NewRegistry
  /\ peer = NoPeer
  /\ \E sections \in [1..NumFlows -> FlowSections] :
       runtime = NewRuntime(sections)

NextRuntime ==
  \/ RuntimeStart
  \/ RuntimeStartNext
  \/ RuntimeStop
  \/ RuntimeStopNext
  \/ RuntimeClose
  \/ \E i \in 1..Len(runtime.flows) : TaskDies(i)

SpecRuntime == InitRuntime /\ [][NextRuntime]_vars

----------------------------------------------------------------------------
(***************************************************************************)
(* The ConfigLoader.  The text it is given is seen as configparser hands   *)
(* it over: the channel sections and the flow sections in the order of the *)
(* text, each with its options; an option is absent (<<>>) or has a value  *)
(* (<<value>>).  A flow section has the type of its input, of its parser   *)
(* and of its output, the name of its channel, and its filter blocks, each *)
(* with its name, its type and its stage.  A flow is named by its rank in  *)
(* the text.                                                               *)
(***************************************************************************)
LoadFlows == 2    \* flow sections of the text

Absent == <<>>

\* the filter blocks of a flow section: none, or one block
BlockLists ==
  {<<>>} \cup
  {<<block>> : block \in [name : {<<1>>},
                          type : {Absent, <<"">>, <<"field">>},
                          stage : {Absent, <<"output">>, <<"bogus">>}]}

\* the flow sections of a given name: one of the three types at most is
\* absent
FlowTexts(name) ==
  {sec \in [name : {name},
            input : {Absent, <<"memory">>},
            parser : {Absent, <<"json">>},
            output : {Absent, <<"memory">>},
            channel : {Absent, <<"c">>},
            blocks : BlockLists] :
     Cardinality({o \in {"input", "parser", "output"} : sec[o] = Absent}) <= 1}

\* the channel sections of the text: none, or the section of channel c
\* with maxsize absent, 0, 2 or not a number
ChannelTexts ==
  {<<>>} \cup {<<[name |-> "c", maxsize |-> m]>> :
                 m \in {Absent, <<"0">>, <<"2">>, <<"x">>}}

Texts ==
  {text \in [flows : UNION {[1..n -> UNION {FlowTexts(k) : k \in 1..LoadFlows}] :
                              n \in 0..LoadFlows},
             channels : ChannelTexts] :
     \A i \in 1..Len(text.flows) : text.flows[i].name = i}

\* raise ConfigError(...): what the message names
ConfigError(what, option, section, filter) ==
  [kind |-> "ConfigError", what |-> what, option |-> option,
   section |-> section, filter |-> filter]

IsError(r) == r.kind = "ConfigError"

\* int(value): whether it raises ValueError, and its result
IsInt(value) == value \in {"0", "2"}

IntOf(value) == IF value = "0" THEN 0 ELSE 2

DefaultAckTimeout == 30

\* ChannelConfig, with its defaults
ChannelConfig(name, size) ==
  [name |-> name, maxsize |-> size, ack_timeout |-> DefaultAckTimeout,
   retry_limit |-> DefaultRetryLimit]

\* ConfigLoader._parse_channels: the ChannelConfig of every channel
\* section, or the ConfigError for the first section with a value that is
\* not a number
RECURSIVE parse_channels(_, _)
parse_channels(sections, channels) ==
  IF sections = <<>>
    THEN [kind |-> "channels", channels |-> channels]
    ELSE LET sec == Head(sections) IN
         IF sec.maxsize # Absent /\ ~IsInt(sec.maxsize[1])
           THEN ConfigError("invalid", "maxsize", sec.name, <<>>)
           ELSE parse_channels(
                  Tail(sections),
                  Append(channels,
                         ChannelConfig(sec.name,
                                       IF sec.maxsize = Absent
                                         THEN DefaultMaxsize
                                         ELSE IntOf(sec.maxsize[1]))))

\* a _component_from_section that takes the type of the section without
\* looking whether the option is there
component_unchecked(sec, prefix) ==
  [kind |-> "component",
   type |-> IF sec[prefix] = Absent THEN "" ELSE sec[prefix][1]]

\* ConfigLoader._component_from_section: the type, or the ConfigError that
\* names the option and the section
component_from_section(sec, prefix) ==
  IF sec[prefix] = Absent
    THEN ConfigError("missing", prefix, sec.name, <<>>)
    ELSE [kind |-> "component", type |-> sec[prefix][1]]

\* ConfigLoader._parse_filters, the loop over the blocks sorted by name:
\* the stage is the option or "parser"; a block whose type is absent or
\* empty raises the ConfigError that names the filter and the flow
RECURSIVE parse_blocks(_, _, _)
parse_blocks(flow_name, blocks, parsed) ==
  IF blocks = <<>>
    THEN [kind |-> "filters", filters |-> parsed]
    ELSE LET block == Head(blocks)
             stage == IF block.stage = Absent THEN "parser" ELSE block.stage[1]
         IN IF block.type = Absent \/ block.type[1] = ""
              THEN ConfigError("missing", "type", flow_name, block.name)
              ELSE parse_blocks(flow_name, Tail(blocks),
                                Append(parsed,
                                       [name |-> block.name,
                                        type |-> block.type[1],
                                        stage |-> stage,
                                        kind |-> "allow"]))

\* a _parse_flows that adds no channel
NoAutoCreate(channels, name) == channels

HasChannel(channels, name) ==
  \E k \in 1..Len(channels) : channels[k].name = name

\* what _parse_flows adds to the channels for a flow that names a channel
\* no section configures
AutoCreate(channels, name) ==
  IF name # "" /\ ~HasChannel(channels, name)
    THEN Append(channels, ChannelConfig(name, DefaultMaxsize))
    ELSE channels

\* ConfigLoader._parse_flows: the FlowConfig of every flow section and the
\* channels, to which a channel that a flow names and no section
\* configures is added with the defaults; or the first ConfigError
RECURSIVE parse_flows(_, _, _)
parse_flows(sections, flows, channels) ==
  IF sections = <<>>
    THEN [kind |-> "flows", flows |-> flows, channels |-> channels]
    ELSE LET sec == Head(sections)
             input_cfg == component_from_section(sec, "input")
             parser_cfg == component_from_section(sec, "parser")
             output_cfg == component_from_section(sec, "output")
             name == IF sec.channel = Absent THEN "" ELSE sec.channel[1]
             known == AutoCreate(channels, name)
             blocks == parse_blocks(sec.name, Sorted(sec.blocks), <<>>)
         IN IF IsError(input_cfg) THEN input_cfg
            ELSE IF IsError(parser_cfg) THEN parser_cfg
            ELSE IF IsError(output_cfg) THEN output_cfg
            ELSE IF IsError(blocks) THEN blocks
            ELSE parse_flows(Tail(sections),
                             Append(flows,
                                    [name |-> sec.name, input |-> input_cfg.type,
                                     parser |-> parser_cfg.type,
                                     output |-> output_cfg.type,
                                     channel |-> name,
                                     filters |-> blocks.filters]),
                             known)

\* ConfigLoader.loads: the RuntimeConfig, or the ConfigError raised
loads(text) ==
  LET channels == parse_channels(text.channels, <<>>) IN
  IF IsError(channels) THEN channels
  ELSE LET parsed == parse_flows(text.flows, <<>>, channels.channels) IN
       IF IsError(parsed) THEN parsed
       ELSE IF parsed.flows = <<>>
         THEN ConfigError("no flows", "", 0, <<>>)
         ELSE [kind |-> "RuntimeConfig", flows |-> parsed.flows,
               channels |-> parsed.channels]

\* the flows of a RuntimeConfig for which ChannelRegistry.get raises
\* KeyError: they name a channel that has no ChannelConfig
Unbound(config) ==
  {i \in 1..Len(config.flows) :
     /\ config.flows[i].channel # ""
     /\ ~HasChannel(config.channels, config.flows[i].channel)}

\* ChannelRegistry.get: the ChannelConfig of the Channel of that name
ConfigOf(channels, name) ==
  channels[CHOOSE k \in 1..Len(channels) : channels[k].name = name]

\* What Runtime.__init__ builds from a RuntimeConfig: for each flow its
\* lists of filters by stage and the configuration of its channel, that of
\* the channel it names or the defaults; or the KeyError of the first flow
\* that names an unknown channel.
BuiltFrom(config) ==
  IF Unbound(config) # {}
    THEN LET i == CHOOSE i \in Unbound(config) :
                    \A i2 \in Unbound(config) : i <= i2
         IN [kind |-> "KeyError", name |-> config.flows[i].channel]
    ELSE [kind |-> "Runtime",
          flows |->
            [i \in 1..Len(config.flows) |->
               LET flow == config.flows[i]
                   channel == IF flow.channel = ""
                                THEN ChannelConfig("", DefaultMaxsize)
                                ELSE ConfigOf(config.channels, flow.channel)
               IN [name |-> flow.name,
                   filters |-> FlowFilters(flow.filters),
                   channel |-> channel,
                   maxsize |-> channel.maxsize]]]

notLoader == <<channelVars, flowcfg, running, source, ingest, drain, output,
               stats, turn, filters, steps, parts, life, runtime, registry, peer>>

\* the call of ConfigLoader.loads on the text
Load ==
  /\ loader.result = <<>>
  /\ loader' = [loader EXCEPT !.result = <<loads(loader.text)>>]
  /\ UNCHANGED notLoader

\* the call of Runtime(config) on the RuntimeConfig loads returned
Build ==
  /\ loader.result # <<>>
  /\ ~IsError(loader.result[1])
  /\ loader.built = <<>>
  /\ loader' = [loader EXCEPT !.built = <<BuiltFrom(loader.result[1])>>]
  /\ UNCHANGED notLoader

InitLoader ==
  /\ NewChannel
  /\ retry_limit = DefaultRetryLimit
  /\ maxsize = DefaultMaxsize
  /\ flowcfg = [suspends |-> FALSE, fails |-> "never", filter |-> "none"]
  /\ filters = NoFilters
  /\ parts = NamedChannel
  /\ IdleFlow
  /\ runtime = NoRuntime
  /\ \E text \in Texts : loader = [NoLoader EXCEPT !.text = text]
  /\ registry = NewRegistry
  /\ peer = NoPeer

NextLoader == Load \/ Build

SpecLoader == InitLoader /\ [][NextLoader]_vars

----------------------------------------------------------------------------
(***************************************************************************)
(* The ComponentRegistry.  A class is known by its name; the component     *)
(* that create_<kind> returns is known by the class that built it.         *)
(***************************************************************************)
MaxRegisters == 3    \* calls of register_<kind>

\* the classes a caller registers
Classes == {"A", "B"}

\* table[name] = cls
Assign(table, name, cls) ==
  [n \in DOMAIN table \cup {name} |-> IF n = name THEN cls ELSE table[n]]

\* ComponentRegistry.register_input ... register_format
register(reg, kind, name, cls) ==
  [reg EXCEPT ![RegisterTable(kind)] = Assign(@, name, cls)]

\* ComponentRegistry._create, as create_<kind> calls it: the component of
\* the class found in the table of the kind, or the KeyError with the kind
\* and the name
create(reg, kind, name) ==
  LET table == reg[CreateTable(kind)] IN
  IF name \notin DOMAIN table
    THEN [raised |-> "KeyError", kind |-> kind, name |-> name, cls |-> "none"]
    ELSE [raised |-> "none", kind |-> kind, name |-> name, cls |-> table[name]]

notRegistry == <<channelVars, flowcfg, running, source, ingest, drain, output,
                 stats, turn, filters, steps, parts, life, runtime, loader,
                 peer>>

\* a call of register_<kind>(name, cls)
Register(kind, name, cls) ==
  /\ Len(registry.log) < MaxRegisters
  /\ registry' = [register(registry, kind, name, cls) EXCEPT
                    !.log = Append(@, [kind |-> kind, name |-> name,
                                       cls |-> cls])]
  /\ UNCHANGED notRegistry

\* a call of create_<kind>(name, options): what it returned or raised, and
\* (history) how many calls of register_<kind> came before it
Create(kind, name) ==
  /\ registry' = [registry EXCEPT
                    !.made = <<[result |-> create(registry, kind, name),
                                at |-> Len(registry.log)]>>]
  /\ UNCHANGED notRegistry

InitRegistry ==
  /\ NewChannel
  /\ retry_limit = DefaultRetryLimit
  /\ maxsize = DefaultMaxsize
  /\ flowcfg = [suspends |-> FALSE, fails |-> "never", filter |-> "none"]
  /\ filters = NoFilters
  /\ parts = NamedChannel
  /\ NewFlow

NextRegistry ==
  \/ \E kind \in Kinds, name \in Names, cls \in Classes :
       Register(kind, name, cls)
  \/ \E kind \in Kinds, name \in Names : Create(kind, name)

SpecRegistry == InitRegistry /\ [][NextRegistry]_vars

----------------------------------------------------------------------------
(***************************************************************************)
(* Two flows that name the same channel of the registry.  The first is the *)
(* flow above, whose input is sent the line a.  The second has components  *)
(* of the same types, of its own: a memory input that is sent the line b,  *)
(* a JSON parser, the format, a memory output that never raises nor        *)
(* suspends; its ingest loop is given a line when the queue has room, and  *)
(* its drain loop, from the return of get to the return of ack, runs       *)
(* without suspension.                                                     *)
(***************************************************************************)
PeerLines == 2     \* lines sent to the input of the second flow
SharedSlots == 2   \* maxsize of the channel the two flows name

notPeer == <<flowcfg, running, source, ingest, drain, output, stats, filters,
             steps, parts, life, runtime, loader, registry>>

\* Flow.start of the second flow: the channel is started, the tasks are
\* created
PeerStart ==
  /\ turn = "none"
  /\ peer.pc = "none"
  /\ Start
  /\ peer' = [peer EXCEPT !.pc = "get"]
  /\ UNCHANGED <<notPeer, turn>>

\* Flow._ingest_loop of the second flow: the line b is read from its input,
\* parsed by its parser, rendered and put in the channel
PeerIngest ==
  /\ turn = "none"
  /\ peer.pc # "none"
  /\ Len(peer.sent) < PeerLines
  /\ ~closed
  /\ ~QFull(queue)
  /\ Put(Payload(JsonLoads(LineB)))
  /\ peer' = [peer EXCEPT !.sent = Append(@, LineB)]
  /\ UNCHANGED <<notPeer, turn>>

\* Flow._drain_loop of the second flow: the call of Channel.get that finds
\* a message in the queue
PeerGet ==
  /\ turn = "none"
  /\ peer.pc = "get"
  /\ GetNow
  /\ peer' = [peer EXCEPT !.pc = "write"]
  /\ turn' = "peer"
  /\ UNCHANGED notPeer

\* Flow._drain_loop of the second flow: Output.write of the rendered
\* payload get returned, and the ack of its token
PeerWrite ==
  /\ turn = "peer"
  /\ peer.pc = "write"
  /\ Ack(ret.token)
  /\ peer' = [peer EXCEPT !.pc = "get",
                          !.records = Append(@, ret.payload[1].rendered)]
  /\ turn' = "none"
  /\ UNCHANGED notPeer

InitTwoFlows ==
  /\ NewChannel
  /\ retry_limit = DefaultRetryLimit
  /\ maxsize = SharedSlots
  /\ flowcfg \in [suspends : BOOLEAN, fails : {"never"}, filter : {"none"}]
  /\ filters = OutputFilter("none")
  /\ parts = NamedChannel
  /\ NewFlow

NextTwoFlows ==
  \/ FlowStart
  \/ Len(stats.sent) < MaxLines /\ Send(LineA)
  \/ IngestRead
  \/ IngestPutResume
  \/ DrainGet
  \/ DrainGetResume
  \/ DrainFilter
  \/ DrainWrite
  \/ DrainWriteResume
  \/ DrainAck
  \/ PeerStart
  \/ PeerIngest
  \/ PeerGet
  \/ PeerWrite
  \/ turn = "none" /\ WdScan /\ UNCHANGED flowVars
  \/ turn = "none" /\ Tick /\ UNCHANGED flowVars

SpecTwoFlows == InitTwoFlows /\ [][NextTwoFlows]_vars

----------------------------------------------------------------------------
(* Properties.                                                             *)

\* the message is nowhere: not queued, not in flight, held by no suspended
\* call and not by the watchdog
Gone(id) ==
  /\ ~InSeq(queue, id)
  /\ ~InSeq(inflight, id)
  /\ \A w \in BagToSet(putters) : w.id # id
  /\ ~(wd.pc = "put" /\ (wd.id = id \/ InSeq(wd.rest, id)))

\* C1: under any interleaving of put, get, ack, nack and watchdog timeouts
\* on an open channel, get returns each message at most retry_limit + 1
\* times.
C1_AtMostRetryLimitPlusOne ==
  \A id \in DOMAIN hist : hist[id].gets <= retry_limit + 1

\* C2: every token the drain loop got from channel.get is acked or nacked
\* exactly once before the loop calls get again or ends: acked when an
\* output-stage filter rejected the record or Output.write returned,
\* nacked when Output.write raised.
C2_EveryTokenAckedOrNackedOnce ==
  /\ Len(drain.calls) <= 1
  /\ (drain.token # 0 /\ drain.pc \in {"get", "getwait", "nackput", "dead"})
       => Len(drain.calls) = 1
  /\ drain.calls = <<"ack">> => drain.cause \in {"rejected", "written"}
  /\ drain.calls = <<"nack">> => drain.cause = "failed"

\* C3: nack(t) of an in-flight message m removes m from the in-flight map
\* and puts m back at the tail of the queue (at once, or once the full
\* queue has room) if and only if requeue is true and
\* m.attempts < retry_limit; a message put back is returned by a later get
\* with the payload that was put and the token t; a message that nack did
\* not put back is never returned by get again.
C3_NackRequeuesOrDropsForGood ==
  [][/\ \A token \in Ids, requeue \in BOOLEAN :
          (InSeq(inflight, token) /\ Nack(token, requeue)) =>
             /\ ~InSeq(inflight', token)
             /\ (requeue /\ msgs[token].attempts < retry_limit)
                  <=> \/ queue' = Append(queue, token)
                      \/ putters' = putters (+) SetToBag({Putter("nack", token)})
             /\ ~(requeue /\ msgs[token].attempts < retry_limit)
                  => queue' = queue /\ putters' = putters
     /\ \A id \in DOMAIN hist :
          hist'[id].gets > hist[id].gets =>
             /\ ret' = Got(id, hist[id].put)
             /\ hist[id].fate # "nackDropped"
    ]_vars

\* C4: the watchdog removes a message in flight for ack_timeout from the
\* in-flight map; it puts the message back if attempts < retry_limit, and
\* the next get of it returns the same payload and token; otherwise the
\* message is dropped, and get does not return it again; the watchdog puts
\* a message back at most once for each time get handed it out.
C4_WatchdogRequeuesOrDropsForGood ==
  [][\A id \in DOMAIN hist :
       /\ hist'[id].wdRequeues <= 1
       /\ hist'[id].gets > hist[id].gets =>
            /\ ret' = Got(id, hist[id].put)
            /\ hist[id].fate # "wdDropped"
    ]_vars

\* the lines sent so far that the parser turns into a record
Admitted == SelectSeq(stats.sent, IsJson)

\* the messages nack or the watchdog dropped
Dropped == {id \in DOMAIN hist : hist[id].fate \in {"nackDropped", "wdDropped"}}

\* how many times the output recorded x
Count(x) == Cardinality({i \in 1..Len(output.records) : output.records[i] = x})

\* the flow of test_flow_retries_on_output_failure: an output that raises at
\* its first write and does not suspend, no filter, the default retry_limit,
\* JSON lines only
FlakyFlow ==
  /\ flowcfg = [suspends |-> FALSE, fails |-> "first", filter |-> "none"]
  /\ retry_limit = DefaultRetryLimit
  /\ Admitted = stats.sent

\* C5: in a flow whose output raises at its first write and at no other,
\* with retry_limit = 3, every record sent is in the end recorded by the
\* output, once, after one retry in all (the nack that follows the failed
\* write puts the message back), and no message is dropped.
C5_FlakyOutputDeliversAfterOneRetry ==
  /\ [](FlakyFlow =>
          /\ Dropped = {}
          /\ stats.retries <= 1
          /\ output.records # <<>> => stats.retries = 1
          /\ \A line \in Lines :
               IsJson(line) =>
                 Count(Format(JsonLoads(line)))
                   <= Cardinality({i \in 1..Len(stats.sent) : stats.sent[i] = line}))
  /\ \A n \in 1..MaxLines :
       (FlakyFlow /\ running /\ Len(stats.sent) = n)
         ~> (Len(output.records) >= n)

\* one line was sent: the output has recorded it once, after one retry
C5_Witness ==
  /\ FlakyFlow
  /\ stats.sent = <<LineA>>
  /\ output.records = <<"a">>
  /\ stats.retries = 1
  /\ hist[1].gets = 2
  /\ hist[1].fate = "acked"

\* C6: in a flow whose output raises at every write, with retry_limit = 2,
\* nothing is recorded, and the message of the one line sent is put back
\* by nack exactly 2 times before nack drops it, once.
C6_FailingOutputRetriesTwiceThenDrops ==
  (/\ flowcfg = [suspends |-> FALSE, fails |-> "always", filter |-> "none"]
   /\ retry_limit = 2
   /\ Len(stats.sent) = 1)
    => /\ output.records = <<>>
       /\ stats.retries <= 2
       /\ Dropped # {} => stats.retries = 2

\* C7: with retry_limit = 2 and a consumer that calls get and never acks
\* nor nacks, a message is handed out three times in all before the
\* watchdog drops it.
C7_ThreeDeliveriesWithRetryLimitTwo ==
  \A id \in DOMAIN hist :
    (retry_limit = 2 /\ hist[id].fate = "wdDropped") => hist[id].gets = 3

\* C8: with retry_limit = 0 get hands out every message at most once: no
\* nack and no ack timeout puts a message back in the queue, at once or
\* later.
C8_NoRetryWithRetryLimitZero ==
  retry_limit = 0 =>
    /\ \A id \in DOMAIN hist :
         /\ hist[id].gets <= 1
         /\ hist[id].wdRequeues = 0
         /\ hist[id].gets = 1 => ~InSeq(queue, id)
    /\ \A w \in BagToSet(putters) : w.op # "nack"
    /\ wd.pc # "put"

\* a message dropped by nack and a message dropped by the watchdog, each
\* handed out once, with retry_limit = 0
C8_Witness ==
  /\ retry_limit = 0
  /\ \E id \in DOMAIN hist :
       hist[id].fate = "nackDropped" /\ hist[id].gets = 1 /\ Gone(id)
  /\ \E id \in DOMAIN hist :
       hist[id].fate = "wdDropped" /\ hist[id].gets = 1 /\ Gone(id)

\* C9: on an open channel, ack(token) and nack(token) with a token that is
\* not in the in-flight map raise KeyError and leave the queue and the
\* in-flight map as they are.
C9_UnknownTokenRaises ==
  [][\A token \in Ids :
       (/\ ~closed
        /\ ~InSeq(inflight, token)
        /\ (Ack(token) \/ \E requeue \in BOOLEAN : Nack(token, requeue)))
         => /\ ret' = KeyError(token)
            /\ queue' = queue
            /\ inflight' = inflight
            /\ putters' = putters
    ]_vars

\* KeyError was raised for the token of a message that had been acked, on
\* an open channel with another message in flight
C9_Witness ==
  /\ ~closed
  /\ ret.kind = "KeyError"
  /\ ret.token \in DOMAIN hist
  /\ hist[ret.token].fate = "acked"
  /\ ~InSeq(inflight, ret.token)
  /\ inflight # <<>>

\* C10: after close has returned, ack(token) and nack(token) with a token
\* that was in flight when the channel was closed raise nothing and put
\* nothing in the queue.
C10_AckNackAfterCloseAccepted ==
  [][\A token \in DOMAIN hist :
       (/\ closed /\ ~closing
        /\ hist[token].fate = "discarded"
        /\ (Ack(token) \/ \E requeue \in BOOLEAN : Nack(token, requeue)))
         => /\ ret'.kind = "ok"
            /\ queue' = queue
    ]_vars

C12_PutBlocksWhileFull ==
  [][/\ Len(queue) <= maxsize
     /\ Len(queue') <= maxsize
     /\ \A p \in Payloads :
          /\ (closed /\ Put(p))
               => /\ ret'.kind = "RuntimeError"
                  /\ UNCHANGED <<queue, inflight, counter, putters, msgs>>
          /\ (~closed /\ Len(queue) >= maxsize /\ Put(p))
               => /\ queue' = queue
                  /\ ret' = ret
                  /\ BagIn(Putter("put", counter'), putters')
     /\ \A w \in BagToSet(putters) :
          (w.op = "put" /\ PutResume(w)) => Len(queue) < maxsize
     /\ (~closed /\ ~closed' /\ Len(queue') < Len(queue))
          => /\ queue' = Tail(queue)
             /\ hist'[Head(queue)].gets = hist[Head(queue)].gets + 1
    ]_vars

\* on an open channel with maxsize = 1 that holds the first message, not yet
\* got, the second put is suspended
C12_Witness ==
  /\ ~closed
  /\ maxsize = 1
  /\ counter = 2
  /\ queue = <<1>>
  /\ hist[1].gets = 0
  /\ BagIn(Putter("put", 2), putters)

\* the flow of the backpressure scenario: a channel of one slot with the
\* default retry_limit, an output that does not raise, no filter, JSON lines
\* only, and two messages put
BackpressureFlow ==
  /\ maxsize = 1
  /\ retry_limit = DefaultRetryLimit
  /\ flowcfg.fails = "never"
  /\ flowcfg.filter = "none"
  /\ Admitted = stats.sent
  /\ counter = 2

\* the ingest task's second put has completed
SecondPutDone == ~(ingest.pc = "put" /\ ingest.id = 2)

\* C13 (as amended): with maxsize = 1 and two records produced while the
\* consumer has not finished the first, the second put does not complete
\* until get has taken the first message out of the queue, and neither
\* record is dropped.
C13_SecondPutWaitsForGet ==
  BackpressureFlow =>
    /\ SecondPutDone => hist[1].gets >= 1
    /\ \A id \in DOMAIN hist : hist[id].fate \in {"none", "acked"}

\* C13 (as stated): the second put does not complete until the first
\* message has been acked, and neither record is dropped.
C13_SecondPutWaitsForAck ==
  BackpressureFlow =>
    /\ SecondPutDone => hist[1].fate = "acked"
    /\ \A id \in DOMAIN hist : hist[id].fate \in {"none", "acked"}

\* the drain task is suspended in the write of the first record, not acked
\* yet, and the second message is in the queue
C13_Witness ==
  /\ BackpressureFlow
  /\ flowcfg.suspends
  /\ drain.pc = "writing"
  /\ drain.token = 1
  /\ inflight = <<1>>
  /\ hist[1].fate = "none"
  /\ queue = <<2>>
  /\ ingest.pc = "read"

\* what holds of the ingest task suspended in put: the one call of put that
\* is suspended holds its record, the task reads no line while the queue
\* is full, and it leaves put with its record enqueued
IngestHoldsOneRecord ==
  /\ [](ingest.pc = "put" =>
          /\ CopiesIn(Putter("put", ingest.id), putters) = 1
          /\ \A w \in BagToSet(putters) : w.op = "put" => w.id = ingest.id
          /\ ~InSeq(queue, ingest.id))
  /\ [](ingest.pc # "put" =>
          \A w \in BagToSet(putters) : w.op # "put")
  /\ [][ingest.pc = "put" =>
          /\ QFull(queue) =>
               /\ ingest' = ingest
               /\ Len(source') >= Len(source)
               /\ SubSeq(source', 1, Len(source)) = source
          /\ ingest'.pc # "put" => queue' = Append(queue, ingest.id)
       ]_vars

\* C14: while the queue is full the ingest task stays suspended in put and
\* reads no line; it holds at most one record that is not enqueued; and
\* the record it holds is enqueued in the end, in every run in which no
\* exception ends the drain task.
C14_BlockedIngestEventuallyEnqueues ==
  /\ IngestHoldsOneRecord
  /\ \A id \in 1..PressureLines :
       (ingest.pc = "put" /\ ingest.id = id)
         ~> (InSeq(queue, id) \/ drain.pc = "dead")

\* why the drain task suspended in nack's Queue.put is given no step that
\* resumes it: the queue it waits for stays full, get being called by the
\* drain task alone
NackPutStaysBlocked == drain.pc = "nackput" => QFull(queue)

\* C15: after Output.write has raised for a message that is still in
\* flight, the drain loop's nack completes and the loop comes to its next
\* channel.get, whatever the queue holds at that time.
C15_NackCompletesAndLoopGoesOn ==
  (drain.pc = "nack" /\ InSeq(inflight, drain.token))
    ~> (drain.pc \in {"get", "getwait"})

\* C16: an exception of Parser.parse or of a filter ends no task: the
\* ingest task is not ended by the line the parser raised on, and the drain
\* task is not ended by the record its output-stage filter raised on (the
\* drain task that ended without a call of ack or nack for the token it
\* holds ended in the filter).
C16_ExceptionDropsOnlyTheRecord ==
  /\ ingest.pc # "dead"
  /\ ~(drain.pc = "dead" /\ drain.calls = <<>>)

\* the names are in ascending order
Ascending(names) ==
  \A i, j \in 1..Len(names) : i < j => NameLess(names[i], names[j])

\* the names of the blocks the section gives the stage
StageNames(stage) ==
  {flowcfg.section[i].name :
     i \in {k \in 1..NumFilters : flowcfg.section[k].stage = stage}}

\* the filters called for the record last processed at the stage
Ran(stage) ==
  CASE stage = "input" -> steps.inputRan
    [] stage = "parser" -> steps.parserRan
    [] OTHER -> steps.outputRan

\* C18: whatever the order of the filter blocks in the section, the filters
\* a stage calls for a record are filters of that stage, called in the
\* lexicographic order of their names, none being called before a filter
\* of the stage with a lesser name.
C18_FiltersRunInNameOrder ==
  \A stage \in Stages :
    /\ Ascending(Ran(stage))
    /\ \A i \in 1..Len(Ran(stage)) : Ran(stage)[i] \in StageNames(stage)
    /\ \A name \in StageNames(stage), i \in 1..Len(Ran(stage)) :
         NameLess(name, Ran(stage)[i]) => InSeq(Ran(stage), name)

\* the section names b, then ab, then a, all at the parser stage: the three
\* filters were called for a record, a first, then ab, then b
C18_Witness ==
  /\ flowcfg.section[1].name = <<2>>
  /\ flowcfg.section[2].name = <<1, 2>>
  /\ flowcfg.section[3].name = <<1>>
  /\ \A i \in 1..NumFilters : flowcfg.section[i].stage = "parser"
  /\ steps.parserRan = << <<1>>, <<1, 2>>, <<2>> >>

\* every filter of the stage allows the record
AdmitsAll(stage, record) ==
  \A i \in 1..Len(filters[stage]) : allow(filters[stage][i], record) = "allow"

\* the line is parsed into a record, and the input- and the parser-stage
\* filters admit it
AdmittedLine(line) ==
  /\ IsJson(line)
  /\ AdmitsAll("input", [raw |-> line])
  /\ AdmitsAll("parser", JsonLoads(line))

\* a filter of the stage that was called rejected the record
RejectedAt(stage, record) ==
  \E i \in 1..Len(filters[stage]) :
    /\ InSeq(Ran(stage), filters[stage][i].name)
    /\ allow(filters[stage][i], record) = "reject"

\* the filter called last at the stage is the only one that may have
\* rejected the record
StopsAtFirstRejection(stage, record) ==
  \A i \in 1..Len(filters[stage]) :
    (/\ InSeq(Ran(stage), filters[stage][i].name)
     /\ allow(filters[stage][i], record) = "reject")
      => Ran(stage)[Len(Ran(stage))] = filters[stage][i].name

\* C19: for the line the ingest loop last read: after an input-stage
\* rejection the parser, the parser-stage filters, the format and
\* channel.put were not called; after an empty parse result or a
\* parser-stage rejection the format and channel.put were not called; at no
\* stage a filter was called after one that rejected; channel.put is called
\* for admitted lines only, and every payload passed to Output.write is
\* that of a sent line that was parsed and admitted by the input- and the
\* parser-stage filters.
C19_DroppedRecordGoesNoFurther ==
  /\ [](/\ RejectedAt("input", [raw |-> steps.line])
             => /\ ~steps.parseCalled
                /\ steps.parserRan = <<>>
                /\ ~steps.formatCalled
                /\ ~steps.putCalled
        /\ (steps.parseCalled /\ steps.line = "")
             => /\ steps.parserRan = <<>>
                /\ ~steps.formatCalled
                /\ ~steps.putCalled
        /\ (IsJson(steps.line) /\ RejectedAt("parser", JsonLoads(steps.line)))
             => /\ ~steps.formatCalled
                /\ ~steps.putCalled
        /\ StopsAtFirstRejection("input", [raw |-> steps.line])
        /\ IsJson(steps.line)
             => StopsAtFirstRejection("parser", JsonLoads(steps.line))
        /\ drain.pc \in {"write", "writing", "ack", "nack"}
             => StopsAtFirstRejection("output", drain.payload.record)
        /\ steps.putCalled => AdmittedLine(steps.line)
        /\ \A id \in DOMAIN hist :
             \E k \in 1..Len(stats.sent) :
               /\ AdmittedLine(stats.sent[k])
               /\ hist[id].put = Payload(JsonLoads(stats.sent[k])))
  /\ [][/\ counter' # counter
             => /\ steps'.putCalled
                /\ hist'[counter'].put = Payload(JsonLoads(steps'.line))
        /\ output.records # output'.records
             => /\ drain.token \in DOMAIN hist
                /\ output'.records = Append(output.records,
                                            hist[drain.token].put.rendered)
       ]_vars

\* a line of b was rejected by the first of two input-stage filters: the
\* second filter, the parser, the format and channel.put were not called
C19_Witness ==
  /\ steps.line = LineB
  /\ Len(filters["input"]) >= 2
  /\ filters["input"][1].kind = "reject"
  /\ steps.inputRan = <<filters["input"][1].name>>
  /\ ~steps.parseCalled
  /\ ~steps.putCalled
  /\ counter = 1
  /\ output.records = <<"a">>

\* the flow of the round trip: a memory output that never raises
RoundTripFlow == flowcfg.fails = "never" /\ ~flowcfg.suspends

\* every filter of every stage admits the line's record
AdmittedByAll(line) ==
  AdmittedLine(line) /\ AdmitsAll("output", JsonLoads(line))

\* what the flow is to write for the lines: format(parse(x)) for each line
\* x that is parsed and admitted, in the order of the lines
RECURSIVE Expected(_)
Expected(lines) ==
  IF lines = <<>> THEN <<>>
  ELSE IF AdmittedByAll(Head(lines))
    THEN <<Format(JsonLoads(Head(lines)))>> \o Expected(Tail(lines))
    ELSE Expected(Tail(lines))

\* s is the beginning of t
IsPrefix(s, t) == Len(s) <= Len(t) /\ SubSeq(t, 1, Len(s)) = s

\* C17: a running flow with a memory output that never raises writes, for
\* the lines sent, format(parse(x)) for each line x that the parser accepts
\* and every filter admits, once and in the order of the lines, and nothing
\* else.
C17_WritesEachAdmittedLineOnceInOrder ==
  /\ [](RoundTripFlow => IsPrefix(output.records, Expected(stats.sent)))
  /\ (RoundTripFlow /\ running /\ Len(stats.sent) = MaxLines)
       ~> (output.records = Expected(stats.sent))

\* C20: in a flow, whose ingest task completes the put of message a before
\* it calls the put of message b when a < b, get hands out a for the first
\* time before it hands out b for the first time; get hands out the head
\* of the queue; and the queue changes only by losing its head to get or by
\* gaining messages at its tail, so that a message put back by nack or by
\* the watchdog is behind every message queued at that moment.
C20_FirstDeliveryInPutOrder ==
  /\ [](\A a, b \in DOMAIN hist :
          (a < b /\ hist[b].gets > 0) => hist[a].gets > 0)
  /\ [][/\ \A id \in DOMAIN hist :
             hist'[id].gets > hist[id].gets
               => /\ queue # <<>>
                  /\ id = Head(queue)
                  /\ queue' = Tail(queue)
        /\ queue' # queue
             => \/ /\ queue # <<>>
                   /\ queue' = Tail(queue)
                   /\ hist'[Head(queue)].gets = hist[Head(queue)].gets + 1
                \/ /\ Len(queue') > Len(queue)
                   /\ IsPrefix(queue, queue')
       ]_vars

\* the first message, handed out once and put back, is in the queue behind
\* the second message, which was not handed out yet
C20_Witness ==
  /\ queue = <<2, 1>>
  /\ hist[1].gets = 1
  /\ hist[2].gets = 0

----------------------------------------------------------------------------
(* The life of a flow: start and stop.                                     *)

KindsOf(comps) == [i \in 1..Len(comps) |-> comps[i].kind]

\* the kinds of the flow's components: input, parser, output, format if
\* there is one, one filter per filter of the flow, channel
KindOrder ==
  <<"input", "parser", "output">>
  \o (IF parts.format THEN <<"format">> ELSE <<>>)
  \o [i \in 1..(Len(filters["input"]) + Len(filters["parser"])
                + Len(filters["output"])) |-> "filter"]
  \o <<"channel">>

HasTasks == ingest.pc # "none" /\ drain.pc # "none"

NoTask == ingest.pc = "none" /\ drain.pc = "none"

\* C21: Flow.start starts the components in the order input, parser,
\* output, format (if configured), filters, channel; the flow has its two
\* tasks, ingest and drain, only once all of them have started; on a flow
\* that is running no call starts a component again or creates a task.
C21_StartsInOrderThenCreatesTasks ==
  /\ [](IsPrefix(KindsOf(life.started), KindOrder))
  /\ [](HasTasks \/ NoTask)
  /\ [](HasTasks => KindsOf(life.started) = KindOrder)
  /\ [][running => /\ life.starts' = life.starts
                   /\ life.started' = life.started
                   /\ ~(NoTask /\ HasTasks')]_vars

\* a running flow with a format and two filters, all started, and its tasks
C21_Witness ==
  /\ running
  /\ parts.format
  /\ KindsOf(life.started)
       = <<"input", "parser", "output", "format", "filter", "filter", "channel">>
  /\ ingest.pc = "read"
  /\ drain.pc = "getwait"

\* the components the last start started and Flow.stop is to stop: all of
\* them, less the channel when the flow does not own it
ToStop == SelectSeq(life.started, LAMBDA c : c.kind # "channel" \/ parts.owner)

TaskEnded(task) == task.pc \in {"none", "done"}

\* C22: Flow.stop stops no component before both tasks have been cancelled
\* and have ended; when it returns it has stopped the components in the
\* reverse of the order of their start; it closes the channel when the flow
\* owns it, and a named channel of the registry stays open.
C22_StopsTasksThenComponentsInReverse ==
  /\ [][life.stopped' # life.stopped /\ life.stopped' # <<>>
          => TaskEnded(ingest) /\ TaskEnded(drain)]_vars
  /\ [](life.stopped # <<>> => TaskEnded(ingest) /\ TaskEnded(drain))
  /\ [](life.stop = "done" =>
          /\ Len(life.stopped) = Len(ToStop)
          /\ \A i \in 1..Len(ToStop) :
               life.stopped[i] = ToStop[Len(ToStop) + 1 - i])
  /\ [](life.stop = "done" /\ parts.owner /\ Len(life.started) = Len(StartOrder)
          => closed)
  /\ [](~parts.owner => ~closed)

\* the flow that owns its channel, started with all its components and
\* stopped while its channel held a message: the channel is closed, the
\* seven components are stopped
C22_Witness ==
  /\ life.stop = "done"
  /\ parts.owner
  /\ closed
  /\ Len(life.stopped) = 7
  /\ life.atStop # {}

\* the task has ended, or was never created
TaskOver(task) == task.pc \in {"none", "done", "dead"}

\* a call of Flow.stop that went on to cancel the ingest task ends both
\* tasks, wherever they were suspended
CancelledTasksEnd ==
  life.stop \in {"ingest", "drain", "close"}
    ~> TaskOver(ingest) /\ TaskOver(drain)

\* C23: after Flow.stop is called on a running flow both the ingest task
\* and the drain task end.
C23_StopEndsBothTasks ==
  life.stop # "none" ~> TaskOver(ingest) /\ TaskOver(drain)

\* the last call of Flow.start ended with the exception of a component's
\* start, and Flow.stop has not been called since
StartRaised ==
  /\ life.starts > 0
  /\ life.stop = "none"
  /\ Len(life.started) < Len(StartOrder)

\* C24: when the start of a component raises during Flow.start, no
\* component of the flow is left started, the flow has no task, and the
\* flow is not marked as running.
C24_FailedStartReleasesEverything ==
  StartRaised => life.stack = <<>> /\ NoTask /\ ~running

\* the drain task calls Output.write with the message it holds
WriteCalled == drain.pc = "write" /\ drain'.pc # "write"

\* a task of the flow started again passes to Output.write none of the
\* messages the channel held when the flow was last stopped
NoWriteOfStopped ==
  WriteCalled /\ life.stop = "none" => drain.token \notin life.atStop

\* the flow that owns its channel writes no such message
OwnedChannelDiscards == [][parts.owner => NoWriteOfStopped]_vars

\* C27: the messages queued or in flight when a flow is stopped are passed
\* to no Output.write after the stop, whether the flow owns its channel or
\* uses a named channel.
C27_StoppedMessagesAreNeverWritten == [][NoWriteOfStopped]_vars

----------------------------------------------------------------------------
(* The Runtime.                                                            *)

\* the flows that use the channel k
UsersOf(k) == {i \in 1..Len(runtime.flows) : runtime.flows[i].chan = k}

C25_SiblingFlowsNotAffected ==
  /\ runtime.pc = "idle" /\ runtime.last \in {"started", "startRaised"}
       => \A i \in 1..Len(runtime.flows) :
            i # runtime.culprit => runtime.flows[i].running
  /\ runtime.pc = "idle" /\ runtime.last \in {"stopped", "stopRaised"}
       => /\ \A i \in 1..Len(runtime.flows) :
               i # runtime.culprit =>
                 ~runtime.flows[i].running /\ ~runtime.flows[i].tasks
          /\ \A k \in Shared(runtime.channels) : runtime.channels[k].closed

\* what the text lacks: the type of the input, of the parser or of the
\* output of a flow section, or the non-empty type of a filter block; each
\* as the option, the flow and the filter
Lacking(text) ==
  {<<o, text.flows[i].name, <<>>>> :
     <<i, o>> \in {p \in (1..Len(text.flows)) \X {"input", "parser", "output"} :
                     text.flows[p[1]][p[2]] = Absent}}
  \cup
  {<<"type", text.flows[i].name, text.flows[i].blocks[j].name>> :
     <<i, j>> \in {p \in (1..Len(text.flows)) \X (1..1) :
                     /\ p[2] <= Len(text.flows[p[1]].blocks)
                     /\ LET type == text.flows[p[1]].blocks[p[2]].type
                        IN type = Absent \/ type[1] = ""}}

\* every channel section of the text has a maxsize that is a number, or
\* none
ChannelsValid(text) ==
  \A k \in 1..Len(text.channels) :
    text.channels[k].maxsize = Absent \/ IsInt(text.channels[k].maxsize[1])

Loaded == loader.result # <<>>

\* C28: whenever a flow section of the text lacks the type of its input,
\* of its parser or of its output, or a filter block lacks a non-empty
\* type, loads raises a ConfigError and returns no RuntimeConfig, so that
\* nothing is built; and when no channel section is invalid (these are
\* parsed first and raise first), the ConfigError names an option the text
\* lacks and the flow that lacks it.
C28_MissingTypeIsRejected ==
  (Loaded /\ Lacking(loader.text) # {}) =>
    /\ IsError(loader.result[1])
    /\ loader.built = <<>>
    /\ ChannelsValid(loader.text) =>
         /\ loader.result[1].what = "missing"
         /\ <<loader.result[1].option, loader.result[1].section,
              loader.result[1].filter>> \in Lacking(loader.text)

\* the second flow section has a filter block without a type, the first
\* lacks nothing, and loads raised the ConfigError that names the block
C28_Witness ==
  /\ Loaded
  /\ ChannelsValid(loader.text)
  /\ Len(loader.text.flows) = 2
  /\ \A lack \in Lacking(loader.text) : lack[2] = 2 /\ lack[1] = "type"
  /\ IsError(loader.result[1])
  /\ loader.result[1].section = 2
  /\ loader.result[1].filter = <<1>>

\* C29: a filter whose stage option is absent gets the stage parser, and a
\* text with a filter block whose stage is none of input, parser and output
\* is rejected by loads, so that every list of filters of a flow built from
\* a loaded configuration is that of one of the three stages.
C29_UnknownStageIsRejected ==
  /\ Loaded /\ ~IsError(loader.result[1]) =>
       \A i \in 1..Len(loader.text.flows) :
         \A j \in 1..Len(loader.text.flows[i].blocks) :
           LET block == loader.text.flows[i].blocks[j] IN
           /\ block.stage = Absent =>
                loader.result[1].flows[i].filters[j].stage = "parser"
           /\ block.stage # Absent => block.stage[1] \in Stages
  /\ loader.built # <<>> =>
       \A i \in DOMAIN loader.built[1].flows :
         DOMAIN loader.built[1].flows[i].filters \subseteq Stages

\* asyncio.Queue(maxsize): a queue whose maxsize is not positive is never
\* full
Unbounded(size) == size <= 0

\* C30: a text with a channel section whose maxsize is 0 is rejected by
\* loads, so that the queue of every channel built from a loaded
\* configuration is bounded.
C30_ZeroMaxsizeIsRejected ==
  /\ (Loaded /\ \E k \in 1..Len(loader.text.channels) :
                  loader.text.channels[k].maxsize = <<"0">>) =>
       IsError(loader.result[1])
  /\ loader.built # <<>> =>
       \A i \in DOMAIN loader.built[1].flows :
         ~Unbounded(loader.built[1].flows[i].maxsize)

\* the channel sections of the text that have this name
SectionsOf(text, name) ==
  {k \in 1..Len(text.channels) : text.channels[k].name = name}

\* C31: after a successful load, the channel each flow names is one of the
\* channels of the RuntimeConfig: with the defaults (maxsize 1000,
\* ack_timeout 30, retry_limit 3) when the text has no section for that
\* name, with the maxsize of its section otherwise; and building the
\* runtime from the RuntimeConfig never raises the KeyError of an unknown
\* channel.
C31_ChannelReferencesResolve ==
  /\ (Loaded /\ ~IsError(loader.result[1])) =>
       \A i \in 1..Len(loader.result[1].flows) :
         LET name == loader.result[1].flows[i].channel
             channels == loader.result[1].channels
         IN name # "" =>
              /\ HasChannel(channels, name)
              /\ IF SectionsOf(loader.text, name) = {}
                   THEN ConfigOf(channels, name) =
                          [name |-> name, maxsize |-> 1000,
                           ack_timeout |-> 30, retry_limit |-> 3]
                   ELSE \A k \in SectionsOf(loader.text, name) :
                          LET declared == loader.text.channels[k].maxsize IN
                          ConfigOf(channels, name).maxsize =
                            IF declared = Absent THEN 1000
                                                 ELSE IntOf(declared[1])
  /\ loader.built # <<>> => loader.built[1].kind = "Runtime"

\* a runtime was built from a text where the first flow names channel c,
\* which has no section, and the second flow names no channel
C31_Witness ==
  /\ loader.built # <<>>
  /\ loader.text.channels = <<>>
  /\ Len(loader.text.flows) = 2
  /\ loader.text.flows[1].channel = <<"c">>
  /\ loader.text.flows[2].channel = Absent
  /\ loader.built[1].kind = "Runtime"
  /\ loader.built[1].flows[1].channel.name = "c"

\* the calls of register_<kind> for this kind and this name among the
\* first n calls
RegisteredFor(kind, name, n) ==
  {k \in 1..n : registry.log[k].kind = kind /\ registry.log[k].name = name}

\* the class create_<kind>(name) must build after the first n calls of
\* register_<kind>: that of the last call for this kind and name, or the
\* built-in class, or "none" when there is neither
Resolves(kind, name, n) ==
  LET calls == RegisteredFor(kind, name, n) IN
  IF calls # {}
    THEN registry.log[CHOOSE k \in calls : \A k2 \in calls : k2 <= k].cls
    ELSE IF name \in DOMAIN Builtin(kind) THEN Builtin(kind)[name]
    ELSE "none"

\* C32: create_<kind>(name) builds the component with the class most
\* recently registered for that kind and name (the built-in one when no
\* call registered one), and raises the KeyError with the kind and the
\* name exactly when nothing is registered for that kind and name; calls
\* of register for another kind or another name do not count.
C32_CreateResolvesLastRegistered ==
  registry.made # <<>> =>
    LET made == registry.made[1]
        cls == Resolves(made.result.kind, made.result.name, made.at)
    IN /\ made.result.cls = cls
       /\ made.result.raised = (IF cls = "none" THEN "KeyError" ELSE "none")

\* create_input("memory") built class B, after register_input("memory", A),
\* then register_output("memory", A), then register_input("memory", B)
C32_Witness ==
  /\ registry.made # <<>>
  /\ registry.made[1].at = 3
  /\ registry.made[1].result = [raised |-> "none", kind |-> "input",
                                name |-> "memory", cls |-> "B"]
  /\ registry.log = <<[kind |-> "input", name |-> "memory", cls |-> "A"],
                      [kind |-> "output", name |-> "memory", cls |-> "A"],
                      [kind |-> "input", name |-> "memory", cls |-> "B"]>>

\* in how many places the message is: each time it is in the queue, once
\* if it is in the in-flight map, once for each suspended Queue.put that
\* holds it (of put, of nack, of the watchdog)
Places(id) ==
  Len(SelectSeq(queue, LAMBDA x : x = id))
  + (IF InSeq(inflight, id) THEN 1 ELSE 0)
  + CopiesIn(Putter("put", id), putters)
  + CopiesIn(Putter("nack", id), putters)
  + (IF wd.pc = "put" /\ wd.id = id THEN 1 ELSE 0)

\* C33: a message is never in two places (twice in the queue, in the queue
\* and in flight, in the queue or in flight and held by a pending requeue);
\* only get puts a message in the in-flight map, and get adds exactly 1 to
\* its attempts, which nothing else changes; the watchdog puts back, or
\* holds to put back, only a message that was in flight.
C33_MessageIsInOnePlace ==
  [][\A id \in DOMAIN msgs :
       /\ Places(id)' <= 1
       /\ (~InSeq(inflight, id) /\ InSeq(inflight', id)) =>
            /\ hist'[id].gets = hist[id].gets + 1
            /\ msgs'[id].attempts = msgs[id].attempts + 1
       /\ msgs'[id].attempts # msgs[id].attempts =>
            (~InSeq(inflight, id) /\ InSeq(inflight', id))
       /\ (/\ ~(wd.pc = "put" /\ wd.id = id)
           /\ \/ hist'[id].wdRequeues > hist[id].wdRequeues
              \/ wd'.pc = "put" /\ wd'.id = id)
            => InSeq(inflight, id)
    ]_vars

\* C35: a message that ack has removed from the in-flight map is not
\* returned by any later get.
C35_AckedIsNeverReturnedAgain ==
  [][\A id \in DOMAIN hist :
       hist[id].fate = "acked" => hist'[id].gets = hist[id].gets]_vars

\* the rendered payload of a record: what the format makes of it, the
\* record itself when the flow has no format
Rendering(record) == IF parts.format THEN Format(record) ELSE record

\* C34: the ingest loop applies the format when it enqueues an admitted
\* record, if the flow has a format, and not otherwise; the payload of a
\* message never changes afterwards; every call of Output.write, the first
\* and each one after a nack or an ack timeout, is given the rendered
\* payload of the message the drain loop got, which is the rendering of its
\* record, the record itself when there is no format; and what a write
\* that succeeds records is that rendered payload.
C34_RenderedOnceAtIngest ==
  [][/\ \A id \in DOMAIN msgs' :
          IF id \in DOMAIN msgs
            THEN msgs'[id].payload = msgs[id].payload
            ELSE /\ msgs'[id].payload.rendered =
                      Rendering(msgs'[id].payload.record)
                 /\ steps'.putCalled
                 /\ steps'.formatCalled = parts.format
     /\ (drain.pc \in {"write", "writing"}) =>
          /\ drain.payload = msgs[drain.token].payload
          /\ drain.payload.rendered = Rendering(drain.payload.record)
     /\ output'.records # output.records =>
          output'.records =
            Append(output.records, msgs[drain.token].payload.rendered)
    ]_vars

\* a flow with a format wrote a on the second delivery of the message,
\* after the first write raised
C34_Witness ==
  /\ parts.format
  /\ output.failed
  /\ output.records = <<"a">>
  /\ \E id \in DOMAIN hist : hist[id].gets = 2 /\ hist[id].fate = "acked"

\* C36: when the watchdog has taken the message out of the in-flight map
\* (to put it back or to drop it) while Output.write was running, the ack
\* or the nack the drain loop then makes for its token does not end the
\* drain task: the loop goes on to its next get.
C36_DrainSurvivesLateAck ==
  [][(/\ drain.pc \in {"ack", "nack"}
      /\ ~InSeq(inflight, drain.token)
      /\ drain'.pc # drain.pc)
       => drain'.pc = "get"]_vars

\* C37: from the return of close to the next start, no message enters the
\* queue or the in-flight map, whatever calls were suspended in the channel
\* when close ran.
C37_NothingEntersClosedChannel ==
  [][(closed /\ ~closing /\ closed') =>
       \A id \in DOMAIN msgs' :
         /\ InSeq(queue', id) => InSeq(queue, id)
         /\ InSeq(inflight', id) => InSeq(inflight, id)]_vars

\* C38: once a call of Flow.stop has ended, by returning or by raising the
\* exception of a task that had ended with one, no component is left
\* started (the owned channel is closed) and neither task is left running.
C38_StopAfterTaskFailureReleasesAll ==
  (~running /\ life.stop \in {"raised", "done"}) =>
    /\ life.stack = <<>>
    /\ TaskOver(ingest)
    /\ TaskOver(drain)

\* C39: a call of start leaves the channel with its watchdog task running;
\* the watchdog of an open channel keeps running as long as the channel is
\* open; and a closed channel, once close has returned, has no running
\* watchdog.
C39_OneWatchdogWhileOpen ==
  [][/\ Start => WatchdogRuns'
     /\ (~closed /\ ~closed' /\ WatchdogRuns) => WatchdogRuns'
     /\ (closed' /\ ~closing') => ~WatchdogRuns'
    ]_vars

\* what a flow with these lines read by its input can have to write: the
\* rendering of the record its parser makes of one of them
OwnRecords(sent) ==
  {Rendering(JsonLoads(sent[j])) : j \in {k \in 1..Len(sent) : IsJson(sent[k])}}

\* C40: every record passed to the Output.write of a flow was read by the
\* input of that flow and parsed by its parser, for each of the two flows
\* that name the same channel.
C40_FlowWritesItsOwnRecords ==
  /\ \A i \in 1..Len(output.records) :
       output.records[i] \in OwnRecords(stats.sent)
  /\ \A i \in 1..Len(peer.records) :
       peer.records[i] \in OwnRecords(peer.sent)

=============================================================================
